---- MODULE Spec2Model ----
(***************************************************************************)
(* A model of the core of the UI toolkit: the generational entity          *)
(* allocator (core/src/state/entity.rs) and the hierarchy tree             *)
(* (core/src/state/hierarchy.rs).                                          *)
(*                                                                         *)
(* Option<T> is modelled as a sequence of length at most one:              *)
(* None == <<>> and Some(x) == <<x>>.                                      *)
(*                                                                         *)
(* An Entity is a u32.  The model keeps its 32 bits as the pair            *)
(* [hi |-> bits 24..31, lo |-> bits 0..23], because the checker's integers *)
(* are 32-bit signed and cannot hold u32::MAX.                             *)
(***************************************************************************)
EXTENDS Integers, Sequences, FiniteSets, TLC

----------------------------------------------------------------------------
(* Bounds of the model *)

\* The low-water mark of the free queue.  The source sets it to 1024
\* (entity.rs:13); the model explores the allocator for a small mark, and
\* every formula below is stated relative to this name.
MINIMUM_FREE_INDICES == 1

\* Cap on the number of indices the allocator may append (generation.len()).
MaxEntities == 3

\* Cap on the stored generation of an index the caller still destroys (Spec;
\* SpecWrap runs the generations through their whole range).
MaxGeneration == 3

\* Cap on the number of destroy calls applied to an entity that is no longer
\* alive, and on the stored generation of an index the caller still destroys
\* (SpecMisuse only).
MaxStaleDestroys == 1

\* The entities given to the hierarchy have the indices 1..MaxIndex (the
\* root has index 0).
MaxIndex == 3

\* The same for the trees built by add alone (SpecBuild).
MaxBuildIndex == 4

\* Cap on the number of add calls given an entity that still has links in
\* the hierarchy (a removed entity that kept its children, or a member of a
\* removed entity's subtree).
MaxRelinks == 2

\* Cap on the number of calls of set_parent, set_first_child,
\* set_next_sibling and set_prev_sibling.
MaxSetCalls == 2

\* The same cap for the calls made with any arguments (SpecAny).
MaxAnySetCalls == 1

\* The entities passed to the calls made with any arguments have the indices
\* 1..MaxAnyIndex.
MaxAnyIndex == 2

\* The PropSet calls of a run, and the values a property takes
MaxPropCalls == 2

MaxPropValue == 2

\* The PropSet calls of a run that also handles window events (SpecWindow)
MaxWindowPropCalls == 1

\* The boxes the layout changes in a run, and the geometry_changed passes
MaxGeoChanges == 2

MaxGeoPasses == 2

\* Entity::new is given the MaxEncodeIndex + 1 lowest and highest indices
\* and the MaxEncodeGeneration + 1 lowest and highest generations.
MaxEncodeIndex == 5

MaxEncodeGeneration == 4

\* The calls made on one ChildIterator
MaxIteratorCalls == 3

----------------------------------------------------------------------------
(* Option *)

None == <<>>

Some(x) == <<x>>

unwrap(o) == o[1]

is_some(o) == o # None

----------------------------------------------------------------------------
(* entity.rs: Entity *)

ENTITY_INDEX_BITS == 24

ENTITY_INDEX_MASK == 2^ENTITY_INDEX_BITS - 1

ENTITY_GENERATION_BITS == 8

ENTITY_GENERATION_MASK == 2^ENTITY_GENERATION_BITS - 1

\* std::u32::MAX >> 8
ENTITY_MAX == 2^24 - 1

\* std::u8::MAX
U8_MAX == 255

RECURSIVE BitOr(_, _, _)
\* a | b on values of `bits` bits
BitOr(a, b, bits) ==
    IF bits = 0 THEN 0
    ELSE (IF a % 2 = 1 \/ b % 2 = 1 THEN 1 ELSE 0)
         + 2 * BitOr(a \div 2, b \div 2, bits - 1)

\* Mutant of Entity::new: the generation is not shifted.
EntityNew_noshift(index, generation) ==
    [hi |-> (index \div 2^ENTITY_INDEX_BITS) % 2^ENTITY_GENERATION_BITS,
     lo |-> BitOr(index % 2^ENTITY_INDEX_BITS, generation % 2^ENTITY_INDEX_BITS,
                  ENTITY_INDEX_BITS)]

\* Entity(index | generation << ENTITY_INDEX_BITS), on u32: the shift drops
\* the bits of generation above the eighth, the bits of index above the 24th
\* land in the high byte.
EntityNew(index, generation) ==
    [hi |-> BitOr((index \div 2^ENTITY_INDEX_BITS) % 2^ENTITY_GENERATION_BITS,
                  generation % 2^ENTITY_GENERATION_BITS,
                  ENTITY_GENERATION_BITS),
     lo |-> index % 2^ENTITY_INDEX_BITS]

\* Entity(std::u32::MAX)
null == [hi |-> ENTITY_GENERATION_MASK, lo |-> ENTITY_INDEX_MASK]

\* Entity(0)
root == [hi |-> 0, lo |-> 0]

is_null(e) == e = null

\* self.0 < u32::MAX, then self.0 & ENTITY_INDEX_MASK
index(e) == IF e # null THEN Some(e.lo) ELSE None

\* self.0 < u32::MAX, then (self.0 >> ENTITY_INDEX_BITS) & ENTITY_GENERATION_MASK
generation(e) == IF e # null THEN Some(e.hi) ELSE None

index_unchecked(e) == e.lo

----------------------------------------------------------------------------
(* entity.rs: EntityManager.  A Vec or VecDeque is a sequence; the element  *)
(* of index i is at position i + 1.                                         *)

EntityManagerNew == [count |-> 0, generation |-> <<>>, free_list |-> <<>>]

\* Mutant of create_entity: the index queued last is recycled.
create_entity_pop_back(em) ==
    IF Len(em.free_list) > MINIMUM_FREE_INDICES
    THEN LET idx == em.free_list[Len(em.free_list)]
         IN  [em    |-> [em EXCEPT !.free_list =
                            SubSeq(em.free_list, 1, Len(em.free_list) - 1)],
              ret   |-> Some(EntityNew(idx, em.generation[idx + 1])),
              panic |-> FALSE]
    ELSE LET gen == Append(em.generation, 0)
             idx == Len(gen) - 1
         IN  [em    |-> [em EXCEPT !.generation = gen],
              ret   |-> Some(EntityNew(idx, gen[idx + 1])),
              panic |-> FALSE]

\* Mutant of create_entity: the recycling test is >= instead of >.
create_entity_ge(em) ==
    IF Len(em.free_list) >= MINIMUM_FREE_INDICES /\ em.free_list # <<>>
    THEN LET idx == Head(em.free_list)
         IN  [em    |-> [em EXCEPT !.free_list = Tail(em.free_list)],
              ret   |-> Some(EntityNew(idx, em.generation[idx + 1])),
              panic |-> FALSE]
    ELSE LET gen == Append(em.generation, 0)
             idx == Len(gen) - 1
         IN  [em    |-> [em EXCEPT !.generation = gen],
              ret   |-> Some(EntityNew(idx, gen[idx + 1])),
              panic |-> FALSE]

\* Mutant of create_entity: the front of the free queue is read, not popped.
create_entity_nopop(em) ==
    IF Len(em.free_list) > MINIMUM_FREE_INDICES
    THEN LET idx == Head(em.free_list)
         IN  [em    |-> em,
              ret   |-> Some(EntityNew(idx, em.generation[idx + 1])),
              panic |-> FALSE]
    ELSE LET gen == Append(em.generation, 0)
             idx == Len(gen) - 1
         IN  [em    |-> [em EXCEPT !.generation = gen],
              ret   |-> Some(EntityNew(idx, gen[idx + 1])),
              panic |-> FALSE]

\* EntityManager::create_entity.  ret is the Option<Entity> returned; panic
\* tells that the assertion on the index failed (the push has happened).
create_entity(em) ==
    IF Len(em.free_list) > MINIMUM_FREE_INDICES
    THEN LET idx == Head(em.free_list)
         IN  [em    |-> [em EXCEPT !.free_list = Tail(em.free_list)],
              ret   |-> Some(EntityNew(idx, em.generation[idx + 1])),
              panic |-> FALSE]
    ELSE LET gen == Append(em.generation, 0)
             idx == Len(gen) - 1
         IN  IF idx < ENTITY_MAX
             THEN [em    |-> [em EXCEPT !.generation = gen],
                   ret   |-> Some(EntityNew(idx, gen[idx + 1])),
                   panic |-> FALSE]
             ELSE [em    |-> [em EXCEPT !.generation = gen],
                   ret   |-> None,
                   panic |-> TRUE]

\* EntityManager::is_alive.  The indexing panics when the index is out of
\* range, the unwrap when the entity is null.
is_alive(em, entity) ==
    IF index_unchecked(entity) >= Len(em.generation) \/ generation(entity) = None
    THEN [panic |-> TRUE, value |-> FALSE]
    ELSE [panic |-> FALSE,
          value |-> em.generation[index_unchecked(entity) + 1]
                        = unwrap(generation(entity))]

\* EntityManager::destroy_entity.  checks is the build's overflow-checks
\* setting: `+= 1` on a u8 of 255 panics with it (debug profile) and wraps
\* to 0 without it (release profile).  The assertion compares a u8 with
\* u8::MAX by <=.
destroy_entity(em, entity, checks) ==
    LET idx == index_unchecked(entity)
    IN  IF idx >= Len(em.generation)
        THEN [em |-> em, panic |-> TRUE]
        ELSE IF ~(em.generation[idx + 1] <= U8_MAX)
        THEN [em |-> em, panic |-> TRUE]
        ELSE IF em.generation[idx + 1] + 1 > U8_MAX /\ checks
        THEN [em |-> em, panic |-> TRUE]
        ELSE [em |-> [em EXCEPT
                        !.generation[idx + 1] = (@ + 1) % (U8_MAX + 1),
                        !.free_list = Append(@, idx)],
              panic |-> FALSE]

----------------------------------------------------------------------------
(* hierarchy.rs: Hierarchy.  The four vectors are sequences of              *)
(* Option<Entity>; the slot of index i is at position i + 1.  A call        *)
(* returns [h |-> the hierarchy after it, res |-> its result], res being    *)
(* "Ok", the name of a HierarchyError, "Panic" (an unwrap of None or an     *)
(* index out of range) or "Hang" (a loop that never ends).                  *)

HierarchyNew ==
    [parent       |-> <<None>>,
     first_child  |-> <<None>>,
     next_sibling |-> <<None>>,
     prev_sibling |-> <<None>>,
     changed      |-> FALSE]

\* v[entity.index_unchecked()]
Slot(v, e) == v[index_unchecked(e) + 1]

RECURSIVE LastOfChain(_, _, _)
\* The loop of add, set_parent and get_last_child: from temp along
\* next_sibling to the entity that has none.  None when the loop has not
\* ended after fuel steps; a chain that ends visits no slot twice, so with
\* fuel = parent.len() a None means the loop never ends.
LastOfChain(h, temp, fuel) ==
    IF Slot(h.next_sibling, temp) = None THEN Some(temp)
    ELSE IF fuel = 0 THEN None
    ELSE LastOfChain(h, unwrap(Slot(h.next_sibling, temp)), fuel - 1)

\* Hierarchy::get_last_child, for an entity that is not null and whose
\* chain ends.
get_last_child(h, entity) ==
    IF index(entity) = None THEN None
    ELSE IF Slot(h.first_child, entity) = None THEN None
    ELSE LastOfChain(h, unwrap(Slot(h.first_child, entity)), Len(h.parent))

RECURSIVE ChainFrom(_, _, _)
\* The entities from f along next_sibling, while f != None, at most fuel of them.
ChainFrom(h, f, fuel) ==
    IF f = None \/ fuel = 0 THEN <<>>
    ELSE <<unwrap(f)>> \o ChainFrom(h, Slot(h.next_sibling, unwrap(f)), fuel - 1)

\* Hierarchy::get_num_children: the number of steps of its loop, when the
\* loop ends (at most parent.len() steps); None for the null entity.
get_num_children(h, entity) ==
    IF index(entity) = None THEN None
    ELSE Some(Len(ChainFrom(h, Slot(h.first_child, entity), Len(h.parent))))

get_parent(h, entity) ==
    IF index(entity) = None THEN None
    ELSE IF unwrap(index(entity)) >= Len(h.parent) THEN None
    ELSE h.parent[unwrap(index(entity)) + 1]

get_first_child(h, entity) ==
    IF index(entity) = None THEN None ELSE h.first_child[unwrap(index(entity)) + 1]

get_next_sibling(h, entity) ==
    IF index(entity) = None THEN None ELSE h.next_sibling[unwrap(index(entity)) + 1]

get_prev_sibling(h, entity) ==
    IF index(entity) = None THEN None ELSE h.prev_sibling[unwrap(index(entity)) + 1]

is_first_child(h, entity) ==
    IF get_parent(h, entity) = None THEN FALSE
    ELSE IF get_first_child(h, unwrap(get_parent(h, entity))) = None THEN FALSE
    ELSE unwrap(get_first_child(h, unwrap(get_parent(h, entity)))) = entity

has_children(h, entity) ==
    IF index(entity) = None THEN FALSE
    ELSE is_some(h.first_child[unwrap(index(entity)) + 1])

\* v with the slot of entity e set to x
SetSlot(v, e, x) == [v EXCEPT ![index_unchecked(e) + 1] = x]

\* Mutant of remove: the removed entity keeps its parent.
remove_keepparent(h, entity) ==
    IF entity = null THEN [h |-> h, res |-> "NullEntity"]
    ELSE IF index_unchecked(entity) >= Len(h.parent)
    THEN [h |-> h, res |-> "NoEntity"]
    ELSE
      LET h1 == IF get_parent(h, entity) # None /\ is_first_child(h, entity)
                THEN [h EXCEPT !.first_child =
                        SetSlot(@, unwrap(get_parent(h, entity)),
                                get_next_sibling(h, entity))]
                ELSE h
          h2 == IF get_prev_sibling(h1, entity) # None
                THEN [h1 EXCEPT !.next_sibling =
                        SetSlot(@, unwrap(get_prev_sibling(h1, entity)),
                                get_next_sibling(h1, entity))]
                ELSE h1
          h3 == IF get_next_sibling(h2, entity) # None
                THEN [h2 EXCEPT !.prev_sibling =
                        SetSlot(@, unwrap(get_next_sibling(h2, entity)),
                                get_prev_sibling(h2, entity))]
                ELSE h2
      IN  [h |-> [h3 EXCEPT !.next_sibling = SetSlot(@, entity, None),
                            !.prev_sibling = SetSlot(@, entity, None),
                            !.changed = TRUE],
           res |-> "Ok"]

\* Hierarchy::remove
remove(h, entity) ==
    IF entity = null THEN [h |-> h, res |-> "NullEntity"]
    ELSE IF index_unchecked(entity) >= Len(h.parent)
    THEN [h |-> h, res |-> "NoEntity"]
    ELSE
      LET h1 == IF get_parent(h, entity) # None /\ is_first_child(h, entity)
                THEN [h EXCEPT !.first_child =
                        SetSlot(@, unwrap(get_parent(h, entity)),
                                get_next_sibling(h, entity))]
                ELSE h
          h2 == IF get_prev_sibling(h1, entity) # None
                THEN [h1 EXCEPT !.next_sibling =
                        SetSlot(@, unwrap(get_prev_sibling(h1, entity)),
                                get_next_sibling(h1, entity))]
                ELSE h1
          h3 == IF get_next_sibling(h2, entity) # None
                THEN [h2 EXCEPT !.prev_sibling =
                        SetSlot(@, unwrap(get_next_sibling(h2, entity)),
                                get_prev_sibling(h2, entity))]
                ELSE h2
      IN  [h |-> [h3 EXCEPT !.next_sibling = SetSlot(@, entity, None),
                            !.prev_sibling = SetSlot(@, entity, None),
                            !.parent = SetSlot(@, entity, None),
                            !.changed = TRUE],
           res |-> "Ok"]

\* Vec::resize(n, None) of a vector shorter than n
Resize(v, n) == v \o [i \in 1..(n - Len(v)) |-> None]

\* Mutant of add: the vectors are resized before the arguments are tested.
add_resize_first(h, entity, parent) ==
    LET n  == index_unchecked(entity) + 1
        h1 == IF entity # null /\ index_unchecked(entity) >= Len(h.parent)
              THEN [h EXCEPT !.parent = Resize(@, n),
                             !.first_child = Resize(@, n),
                             !.next_sibling = Resize(@, n),
                             !.prev_sibling = Resize(@, n)]
              ELSE h
    IN  IF entity = null \/ parent = null THEN [h |-> h1, res |-> "NullEntity"]
        ELSE IF index_unchecked(parent) >= Len(h.parent)
        THEN [h |-> h1, res |-> "InvalidParent"]
        ELSE
          LET h2 == [h1 EXCEPT !.parent = SetSlot(@, entity, Some(parent)),
                               !.first_child = SetSlot(@, entity, None),
                               !.next_sibling = SetSlot(@, entity, None),
                               !.prev_sibling = SetSlot(@, entity, None)]
          IN  IF Slot(h2.first_child, parent) = None
              THEN [h |-> [h2 EXCEPT !.first_child = SetSlot(@, parent, Some(entity)),
                                     !.changed = TRUE],
                    res |-> "Ok"]
              ELSE
                LET temp == LastOfChain(h2, unwrap(Slot(h2.first_child, parent)),
                                        Len(h2.parent))
                IN  IF temp = None THEN [h |-> h2, res |-> "Hang"]
                    ELSE [h |-> [h2 EXCEPT
                                   !.next_sibling = SetSlot(@, unwrap(temp), Some(entity)),
                                   !.prev_sibling = SetSlot(@, entity, temp),
                                   !.changed = TRUE],
                          res |-> "Ok"]

\* Hierarchy::add
add(h, entity, parent) ==
    IF entity = null \/ parent = null THEN [h |-> h, res |-> "NullEntity"]
    ELSE IF index_unchecked(parent) >= Len(h.parent)
    THEN [h |-> h, res |-> "InvalidParent"]
    ELSE
      LET n  == index_unchecked(entity) + 1
          h1 == IF index_unchecked(entity) >= Len(h.parent)
                THEN [h EXCEPT !.parent = Resize(@, n),
                               !.first_child = Resize(@, n),
                               !.next_sibling = Resize(@, n),
                               !.prev_sibling = Resize(@, n)]
                ELSE h
          h2 == [h1 EXCEPT !.parent = SetSlot(@, entity, Some(parent)),
                           !.first_child = SetSlot(@, entity, None),
                           !.next_sibling = SetSlot(@, entity, None),
                           !.prev_sibling = SetSlot(@, entity, None)]
      IN  IF Slot(h2.first_child, parent) = None
          THEN [h |-> [h2 EXCEPT !.first_child = SetSlot(@, parent, Some(entity)),
                                 !.changed = TRUE],
                res |-> "Ok"]
          ELSE
            LET temp == LastOfChain(h2, unwrap(Slot(h2.first_child, parent)),
                                    Len(h2.parent))
            IN  IF temp = None THEN [h |-> h2, res |-> "Hang"]
                ELSE [h |-> [h2 EXCEPT
                               !.next_sibling = SetSlot(@, unwrap(temp), Some(entity)),
                               !.prev_sibling = SetSlot(@, entity, temp),
                               !.changed = TRUE],
                      res |-> "Ok"]

\* Mutant of set_first_child: the changed flag is cleared.
set_first_child_clears_changed(h, entity) ==
    IF index(entity) = None THEN [h |-> h, res |-> "NullEntity"]
    ELSE IF unwrap(index(entity)) >= Len(h.parent)
    THEN [h |-> h, res |-> "InvalidSibling"]
    ELSE IF get_parent(h, entity) # None
            /\ index_unchecked(unwrap(get_parent(h, entity))) >= Len(h.parent)
    THEN [h |-> h, res |-> "InvalidParent"]
    ELSE IF get_parent(h, entity) = None THEN [h |-> h, res |-> "Panic"]
    ELSE
      LET parent == unwrap(get_parent(h, entity))
          previous_first_child == Slot(h.first_child, parent)
      IN  IF previous_first_child = Some(entity)
          THEN [h |-> h, res |-> "AlreadyFirstChild"]
          ELSE
            LET entity_prev_sibling == get_prev_sibling(h, entity)
                entity_next_sibling == get_next_sibling(h, entity)
                h1 == IF entity_prev_sibling # None
                      THEN [h EXCEPT !.next_sibling =
                              SetSlot(@, unwrap(entity_prev_sibling), entity_next_sibling)]
                      ELSE h
                h2 == IF entity_next_sibling # None
                      THEN [h1 EXCEPT !.prev_sibling =
                              SetSlot(@, unwrap(entity_next_sibling), entity_prev_sibling)]
                      ELSE h1
                h3 == IF previous_first_child # None
                      THEN [h2 EXCEPT !.prev_sibling =
                              SetSlot(@, unwrap(previous_first_child), Some(entity))]
                      ELSE h2
                h4 == [h3 EXCEPT !.next_sibling = SetSlot(@, entity, previous_first_child)]
            IN  [h |-> [h4 EXCEPT !.first_child = SetSlot(@, parent, Some(entity)),
                                  !.changed = FALSE],
                 res |-> "Ok"]

\* Hierarchy::set_first_child
set_first_child(h, entity) ==
    IF index(entity) = None THEN [h |-> h, res |-> "NullEntity"]
    ELSE IF unwrap(index(entity)) >= Len(h.parent)
    THEN [h |-> h, res |-> "InvalidSibling"]
    ELSE IF get_parent(h, entity) # None
            /\ index_unchecked(unwrap(get_parent(h, entity))) >= Len(h.parent)
    THEN [h |-> h, res |-> "InvalidParent"]
    ELSE IF get_parent(h, entity) = None THEN [h |-> h, res |-> "Panic"]
    ELSE
      LET parent == unwrap(get_parent(h, entity))
          previous_first_child == Slot(h.first_child, parent)
      IN  IF previous_first_child = Some(entity)
          THEN [h |-> h, res |-> "AlreadyFirstChild"]
          ELSE
            LET entity_prev_sibling == get_prev_sibling(h, entity)
                entity_next_sibling == get_next_sibling(h, entity)
                h1 == IF entity_prev_sibling # None
                      THEN [h EXCEPT !.next_sibling =
                              SetSlot(@, unwrap(entity_prev_sibling), entity_next_sibling)]
                      ELSE h
                h2 == IF entity_next_sibling # None
                      THEN [h1 EXCEPT !.prev_sibling =
                              SetSlot(@, unwrap(entity_next_sibling), entity_prev_sibling)]
                      ELSE h1
                h3 == IF previous_first_child # None
                      THEN [h2 EXCEPT !.prev_sibling =
                              SetSlot(@, unwrap(previous_first_child), Some(entity))]
                      ELSE h2
                h4 == [h3 EXCEPT !.next_sibling = SetSlot(@, entity, previous_first_child)]
            IN  [h |-> [h4 EXCEPT !.first_child = SetSlot(@, parent, Some(entity)),
                                  !.changed = TRUE],
                 res |-> "Ok"]

\* Hierarchy::set_next_sibling.  The test of the two parents reads the
\* parent of entity twice.
set_next_sibling(h, entity, sibling) ==
    IF index_unchecked(entity) >= Len(h.next_sibling) THEN [h |-> h, res |-> "Panic"]
    ELSE IF Slot(h.next_sibling, entity) = Some(sibling)
    THEN [h |-> h, res |-> "AlreadySibling"]
    ELSE IF index_unchecked(sibling) >= Len(h.parent)
    THEN [h |-> h, res |-> "InvalidSibling"]
    ELSE IF get_parent(h, entity) = None THEN [h |-> h, res |-> "InvalidParent"]
    ELSE IF unwrap(get_parent(h, entity)) # unwrap(get_parent(h, entity))
    THEN [h |-> h, res |-> "InvalidSibling"]
    ELSE
      LET parent == unwrap(get_parent(h, entity))
          sibling_prev_sibling == get_prev_sibling(h, sibling)
          sibling_next_sibling == get_next_sibling(h, sibling)
          h1 == IF sibling_prev_sibling # None
                THEN [h EXCEPT !.next_sibling =
                        SetSlot(@, unwrap(sibling_prev_sibling), sibling_next_sibling)]
                ELSE [h EXCEPT !.first_child =
                        SetSlot(@, parent, sibling_next_sibling)]
          h2 == IF sibling_next_sibling # None
                THEN [h1 EXCEPT !.prev_sibling =
                        SetSlot(@, unwrap(sibling_next_sibling), sibling_prev_sibling)]
                ELSE h1
          entity_next_sibling == get_next_sibling(h2, entity)
          h3 == IF entity_next_sibling # None
                THEN [h2 EXCEPT !.prev_sibling =
                        SetSlot(@, unwrap(entity_next_sibling), Some(sibling))]
                ELSE h2
          h4 == [h3 EXCEPT !.next_sibling = SetSlot(@, sibling, entity_next_sibling)]
          h5 == [h4 EXCEPT !.prev_sibling = SetSlot(@, sibling, Some(entity))]
          h6 == [h5 EXCEPT !.next_sibling = SetSlot(@, entity, Some(sibling))]
      IN  [h |-> [h6 EXCEPT !.changed = TRUE], res |-> "Ok"]

\* Hierarchy::set_prev_sibling.  The test of the two parents reads the
\* parent of entity twice.
set_prev_sibling(h, entity, sibling) ==
    IF index_unchecked(entity) >= Len(h.prev_sibling) THEN [h |-> h, res |-> "Panic"]
    ELSE IF Slot(h.prev_sibling, entity) = Some(sibling)
    THEN [h |-> h, res |-> "InvalidSibling"]
    ELSE IF index_unchecked(sibling) >= Len(h.parent)
    THEN [h |-> h, res |-> "InvalidSibling"]
    ELSE IF get_parent(h, entity) = None THEN [h |-> h, res |-> "InvalidParent"]
    ELSE IF unwrap(get_parent(h, entity)) # unwrap(get_parent(h, entity))
    THEN [h |-> h, res |-> "InvalidSibling"]
    ELSE
      LET parent == unwrap(get_parent(h, entity))
          sibling_prev_sibling == get_prev_sibling(h, sibling)
          sibling_next_sibling == get_next_sibling(h, sibling)
          h1 == IF sibling_prev_sibling # None
                THEN [h EXCEPT !.next_sibling =
                        SetSlot(@, unwrap(sibling_prev_sibling), sibling_next_sibling)]
                ELSE [h EXCEPT !.first_child =
                        SetSlot(@, parent, sibling_next_sibling)]
          h2 == IF sibling_next_sibling # None
                THEN [h1 EXCEPT !.prev_sibling =
                        SetSlot(@, unwrap(sibling_next_sibling), sibling_prev_sibling)]
                ELSE h1
          entity_prev_sibling == get_prev_sibling(h2, entity)
          h3 == IF entity_prev_sibling # None
                THEN [h2 EXCEPT !.next_sibling =
                        SetSlot(@, unwrap(entity_prev_sibling), Some(sibling))]
                ELSE [h2 EXCEPT !.first_child = SetSlot(@, parent, Some(sibling))]
          h4 == [h3 EXCEPT !.next_sibling = SetSlot(@, sibling, Some(entity))]
          h5 == [h4 EXCEPT !.prev_sibling = SetSlot(@, sibling, entity_prev_sibling)]
          h6 == [h5 EXCEPT !.prev_sibling = SetSlot(@, entity, Some(sibling))]
      IN  [h |-> [h6 EXCEPT !.changed = TRUE], res |-> "Ok"]

\* Hierarchy::set_parent.  It returns nothing: res is "Ok", "Hang" when the
\* loop to the last child of parent never ends, or "Panic" when a vector is
\* indexed out of range (a call that does not return leaves no state to
\* observe: h is then the hierarchy as it was).
set_parent(h, entity, parent) ==
    IF index_unchecked(entity) >= Len(h.parent)
       \/ index_unchecked(parent) >= Len(h.parent)
    THEN [h |-> h, res |-> "Panic"]
    ELSE
    LET h1 == IF get_parent(h, entity) # None /\ is_first_child(h, entity)
              THEN [h EXCEPT !.first_child =
                      SetSlot(@, unwrap(get_parent(h, entity)),
                              get_next_sibling(h, entity))]
              ELSE h
        h2 == IF get_prev_sibling(h1, entity) # None
              THEN [h1 EXCEPT !.next_sibling =
                      SetSlot(@, unwrap(get_prev_sibling(h1, entity)),
                              get_next_sibling(h1, entity))]
              ELSE h1
        h3 == IF get_next_sibling(h2, entity) # None
              THEN [h2 EXCEPT !.prev_sibling =
                      SetSlot(@, unwrap(get_next_sibling(h2, entity)),
                              get_prev_sibling(h2, entity))]
              ELSE h2
    IN  IF Slot(h3.first_child, parent) = None
        THEN [h |-> [h3 EXCEPT !.first_child = SetSlot(@, parent, Some(entity)),
                               !.parent = SetSlot(@, entity, Some(parent)),
                               !.changed = TRUE],
              res |-> "Ok"]
        ELSE
          LET temp == LastOfChain(h3, unwrap(Slot(h3.first_child, parent)),
                                  Len(h3.parent))
          IN  IF temp = None THEN [h |-> h3, res |-> "Hang"]
              ELSE [h |-> [h3 EXCEPT
                             !.next_sibling = SetSlot(@, unwrap(temp), Some(entity)),
                             !.prev_sibling = SetSlot(@, entity, temp),
                             !.parent = SetSlot(@, entity, Some(parent)),
                             !.changed = TRUE],
                    res |-> "Ok"]

----------------------------------------------------------------------------
(* hierarchy.rs: the iterators.  An iterator borrows the hierarchy; its     *)
(* state is its cursor.  A call of next returns [r |-> the Option<Entity>   *)
(* returned, cur |-> the cursor after it, hang |-> the call never returns]. *)

RECURSIVE ClimbToSibling(_, _, _)
\* The while loop of HierarchyIterator::next: from temp up along parent to
\* the first entity that has a next sibling.  [sibling, hang]: the sibling
\* found (None when temp became None), or that the loop never ends (a
\* climb that ends visits no slot twice).
ClimbToSibling(h, temp, fuel) ==
    IF temp = None THEN [sibling |-> None, hang |-> FALSE]
    ELSE IF Slot(h.next_sibling, unwrap(temp)) # None
    THEN [sibling |-> Slot(h.next_sibling, unwrap(temp)), hang |-> FALSE]
    ELSE IF fuel = 0 THEN [sibling |-> None, hang |-> TRUE]
    ELSE ClimbToSibling(h, Slot(h.parent, unwrap(temp)), fuel - 1)

\* Mutant of HierarchyIterator::next: only the current node's own next
\* sibling is taken, the walk does not climb.
HierarchyIterator_next_noclimb(h, current_node) ==
    IF current_node = None THEN [r |-> None, cur |-> None, hang |-> FALSE]
    ELSE IF Slot(h.first_child, unwrap(current_node)) # None
    THEN [r |-> current_node, cur |-> Slot(h.first_child, unwrap(current_node)),
          hang |-> FALSE]
    ELSE [r |-> current_node, cur |-> Slot(h.next_sibling, unwrap(current_node)),
          hang |-> FALSE]

\* HierarchyIterator::next
HierarchyIterator_next(h, current_node) ==
    IF current_node = None THEN [r |-> None, cur |-> None, hang |-> FALSE]
    ELSE IF Slot(h.first_child, unwrap(current_node)) # None
    THEN [r |-> current_node, cur |-> Slot(h.first_child, unwrap(current_node)),
          hang |-> FALSE]
    ELSE LET c == ClimbToSibling(h, current_node, Len(h.parent))
         IN  [r |-> current_node, cur |-> c.sibling, hang |-> c.hang]

\* HierarchyIterator::next_branch: r is what the call returns, cur the
\* pending node it leaves.  When the climb finds no sibling the pending node is
\* left as it was and None is returned.
HierarchyIterator_next_branch(h, current_node) ==
    IF current_node = None THEN [r |-> None, cur |-> None, hang |-> FALSE]
    ELSE LET c == ClimbToSibling(h, current_node, Len(h.parent))
         IN  IF c.sibling # None
             THEN [r |-> current_node, cur |-> c.sibling, hang |-> FALSE]
             ELSE [r |-> None, cur |-> current_node, hang |-> c.hang]

RECURSIVE BranchClimb(_, _, _, _)
\* The while loop of BranchIterator::next: from temp up along parent to the
\* first entity that has a next sibling, ending with None when the parent
\* reached is start_node or there is no parent.
BranchClimb(h, start_node, temp, fuel) ==
    IF temp = None THEN [sibling |-> None, hang |-> FALSE]
    ELSE IF Slot(h.next_sibling, unwrap(temp)) # None
    THEN [sibling |-> Slot(h.next_sibling, unwrap(temp)), hang |-> FALSE]
    ELSE IF Slot(h.parent, unwrap(temp)) = Some(start_node)
    THEN [sibling |-> None, hang |-> FALSE]
    ELSE IF fuel = 0 THEN [sibling |-> None, hang |-> TRUE]
    ELSE BranchClimb(h, start_node, Slot(h.parent, unwrap(temp)), fuel - 1)

\* Mutant of BranchIterator::next: the walk climbs from the start node too.
BranchIterator_next_climbs_from_start(h, it) ==
    IF it.current_node = None THEN [r |-> None, cur |-> it, hang |-> FALSE]
    ELSE IF Slot(h.first_child, unwrap(it.current_node)) # None
    THEN [r |-> it.current_node,
          cur |-> [it EXCEPT !.current_node =
                      Slot(h.first_child, unwrap(it.current_node))],
          hang |-> FALSE]
    ELSE LET c == BranchClimb(h, it.start_node, it.current_node, Len(h.parent))
         IN  [r |-> it.current_node,
              cur |-> [it EXCEPT !.current_node = c.sibling],
              hang |-> c.hang]

\* BranchIterator::next
BranchIterator_next(h, it) ==
    IF it.current_node = None THEN [r |-> None, cur |-> it, hang |-> FALSE]
    ELSE IF Slot(h.first_child, unwrap(it.current_node)) # None
    THEN [r |-> it.current_node,
          cur |-> [it EXCEPT !.current_node =
                      Slot(h.first_child, unwrap(it.current_node))],
          hang |-> FALSE]
    ELSE IF it.current_node # Some(it.start_node)
    THEN LET c == BranchClimb(h, it.start_node, it.current_node, Len(h.parent))
         IN  [r |-> it.current_node,
              cur |-> [it EXCEPT !.current_node = c.sibling],
              hang |-> c.hang]
    ELSE [r |-> it.current_node, cur |-> [it EXCEPT !.current_node = None],
          hang |-> FALSE]

\* IntoBranchIterator::branch_iter: the cursor a branch iteration starts with
branch_iter(entity) == [start_node |-> entity, current_node |-> Some(entity)]

\* IntoHierarchyIterator for &Entity: the cursor a depth-first iteration
\* from an entity starts with
into_iter(entity) == Some(entity)

\* ParentIterator::next
ParentIterator_next(h, current) ==
    IF current = None THEN [r |-> None, cur |-> None, hang |-> FALSE]
    ELSE [r |-> current, cur |-> Slot(h.parent, unwrap(current)), hang |-> FALSE]

\* IntoIterator for &Hierarchy: the cursor a depth-first iteration starts with
HierarchyIntoIter == Some(root)

\* IntoParentIterator::parent_iter: the cursor an ancestor iteration starts with
parent_iter(entity) == Some(entity)

\* IntoChildIterator::child_iter: the two cursors a child iteration starts
\* with.  It calls get_last_child: hang when the child chain never ends.
child_iter(h, entity) ==
    [current_forward  |-> Slot(h.first_child, entity),
     current_backward |-> get_last_child(h, entity),
     hang |-> /\ Slot(h.first_child, entity) # None
              /\ LastOfChain(h, unwrap(Slot(h.first_child, entity)),
                             Len(h.parent)) = None]

\* ChildIterator::next
ChildIterator_next(h, it) ==
    IF it.current_forward = None THEN [r |-> None, cur |-> it, hang |-> FALSE]
    ELSE [r |-> it.current_forward,
          cur |-> [it EXCEPT !.current_forward =
                      Slot(h.next_sibling, unwrap(it.current_forward))],
          hang |-> FALSE]

\* ChildIterator::next_back
ChildIterator_next_back(h, it) ==
    IF it.current_backward = None THEN [r |-> None, cur |-> it, hang |-> FALSE]
    ELSE [r |-> it.current_backward,
          cur |-> [it EXCEPT !.current_backward =
                      Slot(h.prev_sibling, unwrap(it.current_backward))],
          hang |-> FALSE]

RECURSIVE Drain(_, _, _, _)
\* A for loop over an iterator: next is called until it returns None.
\* [out |-> the entities yielded, done |-> the loop has ended]; kind names
\* the iterator.  A loop that ends yields no index twice (the cursor alone
\* decides what follows), so it has ended after parent.len() + 1 calls.
Drain(kind, h, cur, fuel) ==
    LET n == CASE kind = "hierarchy" -> HierarchyIterator_next(h, cur)
               [] kind = "parent" -> ParentIterator_next(h, cur)
               [] kind = "child" -> ChildIterator_next(h, cur)
               [] kind = "child_back" -> ChildIterator_next_back(h, cur)
               [] kind = "branch" -> BranchIterator_next(h, cur)
    IN  IF n.hang THEN [out |-> <<>>, done |-> FALSE]
        ELSE IF n.r = None THEN [out |-> <<>>, done |-> TRUE]
        ELSE IF fuel = 0 THEN [out |-> <<>>, done |-> FALSE]
        ELSE LET rest == Drain(kind, h, n.cur, fuel - 1)
             IN  [out |-> <<unwrap(n.r)>> \o rest.out, done |-> rest.done]

\* HierarchyTree::is_child_of
is_child_of(h, entity, other) ==
    IF entity = null THEN FALSE
    ELSE IF get_parent(h, entity) # None
    THEN unwrap(get_parent(h, entity)) = other
    ELSE FALSE

\* HierarchyTree::is_descendant_of: entity or one of its ancestors is other.
is_descendant_of(h, entity, other) ==
    IF entity = null THEN FALSE
    ELSE LET ancestors == Drain("parent", h, parent_iter(entity), Len(h.parent)).out
         IN  \E i \in 1..Len(ancestors) : ancestors[i] = other

----------------------------------------------------------------------------
(* The allocator and its caller *)

VARIABLES
    entity_manager,   \* the EntityManager
    overflow_checks,  \* the build profile: TRUE debug, FALSE release
    panicked,         \* a call has panicked
    live,             \* the entities create returned and destroy has not
                      \* been given since, in the order of their creation
    dead,             \* the entities destroy has been given
    stale_destroys,   \* the number of destroy calls on an entity no longer live
    last              \* the last call: what it was given and what it returned

avars == <<entity_manager, overflow_checks, panicked, live, dead,
           stale_destroys, last>>

VARIABLES
    hierarchy,   \* the Hierarchy
    halted,      \* a call on the hierarchy has panicked or never returns
    hlast,       \* the last call on the hierarchy and its result
    hpre,        \* the hierarchy before the last call
    edges,       \* <<entity, parent>> of every add that returned Ok, the
                 \* entity not removed since
    relinks,     \* the number of add calls given an entity that had links
    set_calls    \* the number of calls of the four set_ methods

hvars == <<hierarchy, halted, hlast, hpre, edges, relinks, set_calls>>

VARIABLES
    style,           \* state.style: per property, the value stored for an entity
    needs_restyle,   \* state.needs_restyle
    needs_relayout,  \* state.needs_relayout
    needs_redraw,    \* state.needs_redraw
    plast,           \* the last PropSet call and the three flags before it
    prop_calls,      \* the number of PropSet calls
    passes,          \* the passes the last window event ran, in order, each
                     \* with the hierarchy it was handed
    wlast            \* the last window event, the flags and the hierarchy
                     \* when it was dispatched

pvars == <<style, needs_restyle, needs_relayout, needs_redraw, plast,
           prop_calls, passes, wlast>>

VARIABLES
    data,         \* state.data: the changed-bits the layout left for an entity
    event_queue,  \* the events inserted into the state and not yet taken
    glast,        \* the hierarchy, the changed-bits and the length of the
                  \* queue when the last geometry_changed pass began
    geo_changes,  \* the number of boxes the layout has changed
    geo_passes    \* the number of geometry_changed passes

gvars == <<data, event_queue, glast, geo_changes, geo_passes>>

vars == <<avars, hvars, pvars, gvars>>

SeqSet(s) == {s[i] : i \in 1..Len(s)}

RemoveAt(s, k) == [i \in 1..(Len(s) - 1) |-> IF i < k THEN s[i] ELSE s[i + 1]]

NoCall == [op |-> "new", entity |-> None, pre_free |-> 0, pre_generation |-> 0,
           freed |-> FALSE, issued |-> FALSE]

NoHCall == [op |-> "new", entity |-> None, other |-> None, res |-> "Ok"]

InitHier ==
    /\ hierarchy = HierarchyNew
    /\ halted = FALSE
    /\ hlast = NoHCall
    /\ hpre = HierarchyNew
    /\ edges = {}
    /\ relinks = 0
    /\ set_calls = 0

InitManager ==
    /\ entity_manager = EntityManagerNew
    /\ panicked = FALSE
    /\ live = <<>>
    /\ dead = {}
    /\ stale_destroys = 0
    /\ last = NoCall

\* The entities the PropSet methods are called on
PropEntities == {root, EntityNew(1, 0)}

\* The values a property is given
PropValues == 1..MaxPropValue

StyleFields ==
    {"left", "right", "top",
     "bottom", "width", "height",
     "text", "font_color", "text_justify",
     "text_align", "background_color", "border_color",
     "border_radius_top_left", "border_radius_top_right", "border_radius_bottom_left",
     "border_radius_bottom_right", "margin_left", "margin_right",
     "margin_top", "margin_bottom", "padding_left",
     "padding_right", "padding_top", "padding_bottom",
     "pseudo_classes", "elements", "ids",
     "classes", "tooltip", "background_image",
     "focus_order", "visibility", "overflow",
     "display", "opacity", "rotate",
     "flex_direction", "justify_content", "align_content",
     "align_items", "flex_grow", "flex_shrink",
     "flex_basis", "align_self", "position",
     "min_width", "max_width", "min_height",
     "max_height", "font_size", "border_width",
     "clip_widget", "z_order"}

\* No property stored for any entity; the root has its pseudo classes, the
\* entity not built yet has none.
StyleNew ==
    [f \in StyleFields |->
        [e \in PropEntities |->
            IF f = "pseudo_classes" /\ e = root
            THEN Some([enabled |-> FALSE, disabled |-> FALSE, checked |-> FALSE,
                       over |-> FALSE, active |-> FALSE, hover |-> FALSE,
                       focus |-> FALSE])
            ELSE None]]

NoPCall == [op |-> "new", needs_restyle |-> FALSE, needs_relayout |-> FALSE,
            needs_redraw |-> FALSE]

NoEvent == [event |-> "new", needs_restyle |-> FALSE,
            needs_relayout |-> FALSE, needs_redraw |-> FALSE,
            hierarchy |-> HierarchyNew, prop_calls |-> 0]

InitStyle ==
    /\ style = StyleNew
    /\ plast = NoPCall
    /\ prop_calls = 0
    /\ passes = <<>>
    /\ wlast = NoEvent

\* The entities the layout resolves a box for
GeoEntities == {root} \cup {EntityNew(i, 0) : i \in 1..MaxAnyIndex}

\* POSX_CHANGED, POSY_CHANGED, WIDTH_CHANGED, HEIGHT_CHANGED
GeometryBits == {"POSX_CHANGED", "POSY_CHANGED", "WIDTH_CHANGED", "HEIGHT_CHANGED"}

NoPass == [hierarchy |-> HierarchyNew, data |-> [e \in GeoEntities |-> {}],
           queued |-> 0, geo_changes |-> 0, again |-> FALSE]

InitGeometry ==
    /\ data = [e \in GeoEntities |-> {}]
    /\ event_queue = <<>>
    /\ glast = NoPass
    /\ geo_changes = 0
    /\ geo_passes = 0

InitFlags ==
    /\ needs_restyle = FALSE
    /\ needs_relayout = FALSE
    /\ needs_redraw = FALSE

InitAlloc ==
    /\ InitManager /\ overflow_checks \in BOOLEAN /\ InitHier
    /\ InitStyle /\ InitFlags /\ InitGeometry

\* A call of create_entity.  The model appends at most cap indices.
Create(cap) ==
    /\ ~panicked
    /\ \/ Len(entity_manager.free_list) > MINIMUM_FREE_INDICES
       \/ Len(entity_manager.generation) < cap
    /\ LET c == create_entity(entity_manager)
           i == index_unchecked(unwrap(c.ret))
       IN  /\ entity_manager' = c.em
           /\ panicked' = c.panic
           /\ live' = IF c.panic THEN live ELSE Append(live, unwrap(c.ret))
           /\ last' = [op |-> "create", entity |-> c.ret,
                       pre_free |-> Len(entity_manager.free_list),
                       pre_generation |-> 0,
                       freed  |-> ~c.panic /\ \E e \in dead : index_unchecked(e) = i,
                       issued |-> ~c.panic /\ \E e \in dead \cup SeqSet(live) :
                                                index_unchecked(e) = i]
    /\ UNCHANGED <<overflow_checks, dead, stale_destroys, hvars, pvars, gvars>>

\* A call of destroy_entity on the k-th live entity, whose index has a stored
\* generation of at most maxgen.
Destroy(k, maxgen) ==
    /\ ~panicked
    /\ entity_manager.generation[index_unchecked(live[k]) + 1] <= maxgen
    /\ LET e == live[k]
           d == destroy_entity(entity_manager, e, overflow_checks)
       IN  /\ entity_manager' = d.em
           /\ panicked' = d.panic
           /\ live' = IF d.panic THEN live ELSE RemoveAt(live, k)
           /\ dead' = IF d.panic THEN dead ELSE dead \cup {e}
           /\ last' = [op |-> "destroy", entity |-> Some(e),
                       pre_free |-> Len(entity_manager.free_list),
                       pre_generation |->
                           entity_manager.generation[index_unchecked(e) + 1],
                       freed |-> FALSE, issued |-> FALSE]
    /\ UNCHANGED <<overflow_checks, stale_destroys, hvars, pvars, gvars>>

\* A second call of destroy_entity on the entity that was just destroyed.
DestroyStale(e) ==
    /\ ~panicked
    /\ last.op = "destroy" /\ last.entity = Some(e)
    /\ stale_destroys < MaxStaleDestroys
    /\ LET d == destroy_entity(entity_manager, e, overflow_checks)
       IN  /\ entity_manager' = d.em
           /\ panicked' = d.panic
           /\ last' = [op |-> "destroy", entity |-> Some(e),
                       pre_free |-> Len(entity_manager.free_list),
                       pre_generation |->
                           entity_manager.generation[index_unchecked(e) + 1],
                       freed |-> FALSE, issued |-> FALSE]
    /\ stale_destroys' = stale_destroys + 1
    /\ UNCHANGED <<overflow_checks, live, dead, hvars, pvars, gvars>>

NextAlloc ==
    \/ Create(MaxEntities)
    \/ \E k \in 1..Len(live) : Destroy(k, MaxGeneration - 1)

\* The allocator under a caller that destroys live entities only.
Spec == InitAlloc /\ [][NextAlloc]_vars

NextMisuse ==
    \/ Create(MaxEntities)
    \/ \E k \in 1..Len(live) : Destroy(k, MaxStaleDestroys)
    \/ \E e \in dead \ SeqSet(live) : DestroyStale(e)

\* The allocator under a caller that may also destroy an entity twice.
SpecMisuse == InitAlloc /\ [][NextMisuse]_vars

NextWrap ==
    \/ Create(MINIMUM_FREE_INDICES + 1)
    \/ \E k \in 1..Len(live) : Destroy(k, U8_MAX)

\* The allocator over the whole range of the generations, with the fewest
\* indices that let it recycle.
SpecWrap == InitAlloc /\ [][NextWrap]_vars

\* The entities is_alive is asked about: every index up to one never issued,
\* every generation up to the cap, and the null entity.
Probes ==
    {EntityNew(i, g) : i \in 0..MaxEntities, g \in 0..MaxGeneration} \cup {null}

\* A call of is_alive
IsAlive(e) ==
    /\ ~panicked
    /\ LET r == is_alive(entity_manager, e)
       IN  /\ panicked' = r.panic
           /\ last' = [op |-> "is_alive", entity |-> Some(e),
                       pre_free |-> Len(entity_manager.free_list),
                       pre_generation |-> 0, freed |-> FALSE,
                       issued |-> index_unchecked(e) < Len(entity_manager.generation),
                       alive |-> r.value]
    /\ UNCHANGED <<entity_manager, overflow_checks, live, dead, stale_destroys,
                   hvars, pvars, gvars>>

NextAlive ==
    \/ Create(MaxEntities)
    \/ \E k \in 1..Len(live) : Destroy(k, MaxGeneration - 1)
    \/ \E e \in Probes : IsAlive(e)

\* The allocator under a caller that also asks whether entities are alive.
SpecAlive == InitAlloc /\ [][NextAlive]_vars

\* The indices and the generations Entity::new is given
EncodeIndices ==
    (0..MaxEncodeIndex) \cup ((ENTITY_INDEX_MASK - MaxEncodeIndex)..ENTITY_INDEX_MASK)

EncodeGenerations ==
    (0..MaxEncodeGeneration)
        \cup ((ENTITY_GENERATION_MASK - MaxEncodeGeneration)..ENTITY_GENERATION_MASK)

\* A call of Entity::new(index, generation)
NewEntity(i, g) ==
    /\ last' = [op |-> "Entity::new", entity |-> Some(EntityNew(i, g)),
                pre_free |-> 0, pre_generation |-> 0, freed |-> FALSE,
                issued |-> FALSE, index |-> i, generation |-> g]
    /\ UNCHANGED <<entity_manager, overflow_checks, panicked, live, dead,
                   stale_destroys, hvars, pvars, gvars>>

\* A call of Entity::null()
NullEntity ==
    /\ last' = [op |-> "Entity::null", entity |-> Some(null),
                pre_free |-> 0, pre_generation |-> 0, freed |-> FALSE,
                issued |-> FALSE]
    /\ UNCHANGED <<entity_manager, overflow_checks, panicked, live, dead,
                   stale_destroys, hvars, pvars, gvars>>

NextEncode ==
    \/ \E i \in EncodeIndices, g \in EncodeGenerations : NewEntity(i, g)
    \/ NullEntity

SpecEncode == InitAlloc /\ [][NextEncode]_vars

----------------------------------------------------------------------------
(* The hierarchy and its caller *)

\* The entity of index i the allocator issues first
Ent(i) == EntityNew(i, 0)

Entities(n) == {Ent(i) : i \in 1..n}

\* Some slot of the entity is not None.
Linked(h, e) ==
    /\ index_unchecked(e) < Len(h.parent)
    /\ \/ Slot(h.parent, e) # None
       \/ Slot(h.first_child, e) # None
       \/ Slot(h.next_sibling, e) # None
       \/ Slot(h.prev_sibling, e) # None

\* The entity has a slot and the root is among its ancestors (or is it).
InTree(h, e) ==
    index_unchecked(e) < Len(h.parent) /\ is_descendant_of(h, e, root)

InitTree ==
    /\ InitManager /\ overflow_checks = FALSE
    /\ InitHier
    /\ InitStyle /\ InitFlags /\ InitGeometry

Halts(res) == res \in {"Panic", "Hang"}

\* A call add(e, p), e not in the tree and p in it; cap bounds the calls
\* whose entity still has links.
Add(e, p, cap) ==
    /\ ~halted
    /\ ~InTree(hierarchy, e) /\ InTree(hierarchy, p)
    /\ Linked(hierarchy, e) => relinks < cap
    /\ relinks' = IF Linked(hierarchy, e) THEN relinks + 1 ELSE relinks
    /\ LET c == add(hierarchy, e, p)
       IN  /\ hierarchy' = c.h
           /\ halted' = Halts(c.res)
           /\ hlast' = [op |-> "add", entity |-> Some(e), other |-> Some(p),
                        res |-> c.res]
           /\ edges' = IF c.res = "Ok"
                       THEN {x \in edges : x[1] # e} \cup {<<e, p>>}
                       ELSE edges
    /\ hpre' = hierarchy
    /\ UNCHANGED <<avars, pvars, gvars, set_calls>>

\* A call remove(e).
Remove(e) ==
    /\ ~halted
    /\ LET c == remove(hierarchy, e)
       IN  /\ hierarchy' = c.h
           /\ halted' = Halts(c.res)
           /\ hlast' = [op |-> "remove", entity |-> Some(e), other |-> None,
                        res |-> c.res]
           /\ edges' = IF c.res = "Ok" THEN {x \in edges : x[1] # e} ELSE edges
    /\ hpre' = hierarchy
    /\ UNCHANGED <<avars, pvars, gvars, relinks, set_calls>>

NextBuild ==
    \E e \in Entities(MaxBuildIndex), p \in Entities(MaxBuildIndex) \cup {root} :
        Add(e, p, 0)

\* Trees built by add alone.
SpecBuild == InitTree /\ [][NextBuild]_vars

NextTree ==
    \/ \E e \in Entities(MaxIndex), p \in Entities(MaxIndex) \cup {root} :
          Add(e, p, MaxRelinks)
    \/ \E e \in Entities(MaxIndex) \cup {root, null} : Remove(e)

\* The hierarchy under add (of an entity not in the tree, under a parent in
\* the tree) and remove.
SpecTree == InitTree /\ [][NextTree]_vars

\* A call set_parent(e, p), e and p in the tree, p neither e nor a
\* descendant of e.
SetParent(e, p) ==
    /\ ~halted
    /\ set_calls < MaxSetCalls
    /\ InTree(hierarchy, e) /\ InTree(hierarchy, p)
    /\ ~is_descendant_of(hierarchy, p, e)
    /\ LET c == set_parent(hierarchy, e, p)
       IN  /\ hierarchy' = c.h
           /\ halted' = Halts(c.res)
           /\ hlast' = [op |-> "set_parent", entity |-> Some(e),
                        other |-> Some(p), res |-> c.res]
           /\ edges' = IF c.res = "Ok"
                       THEN {x \in edges : x[1] # e} \cup {<<e, p>>}
                       ELSE edges
    /\ hpre' = hierarchy
    /\ set_calls' = set_calls + 1
    /\ UNCHANGED <<avars, pvars, gvars, relinks>>

\* A call set_first_child(e), e in the tree.
SetFirstChild(e) ==
    /\ ~halted
    /\ set_calls < MaxSetCalls
    /\ InTree(hierarchy, e)
    /\ LET c == set_first_child(hierarchy, e)
       IN  /\ hierarchy' = c.h
           /\ halted' = Halts(c.res)
           /\ hlast' = [op |-> "set_first_child", entity |-> Some(e),
                        other |-> None, res |-> c.res]
    /\ hpre' = hierarchy
    /\ set_calls' = set_calls + 1
    /\ UNCHANGED <<avars, pvars, gvars, relinks, edges>>

\* A call set_next_sibling(e, s), e and s two entities of the tree.
SetNextSibling(e, s) ==
    /\ ~halted
    /\ set_calls < MaxSetCalls
    /\ e # s /\ InTree(hierarchy, e) /\ InTree(hierarchy, s)
    /\ LET c == set_next_sibling(hierarchy, e, s)
       IN  /\ hierarchy' = c.h
           /\ halted' = Halts(c.res)
           /\ hlast' = [op |-> "set_next_sibling", entity |-> Some(e),
                        other |-> Some(s), res |-> c.res]
    /\ hpre' = hierarchy
    /\ set_calls' = set_calls + 1
    /\ UNCHANGED <<avars, pvars, gvars, relinks, edges>>

\* A call set_prev_sibling(e, s), e and s two entities of the tree.
SetPrevSibling(e, s) ==
    /\ ~halted
    /\ set_calls < MaxSetCalls
    /\ e # s /\ InTree(hierarchy, e) /\ InTree(hierarchy, s)
    /\ LET c == set_prev_sibling(hierarchy, e, s)
       IN  /\ hierarchy' = c.h
           /\ halted' = Halts(c.res)
           /\ hlast' = [op |-> "set_prev_sibling", entity |-> Some(e),
                        other |-> Some(s), res |-> c.res]
    /\ hpre' = hierarchy
    /\ set_calls' = set_calls + 1
    /\ UNCHANGED <<avars, pvars, gvars, relinks, edges>>

\* A call remove(e), e in the tree.
RemoveInTree(e) == InTree(hierarchy, e) /\ Remove(e)

NextMut ==
    \/ \E e \in Entities(MaxIndex), p \in Entities(MaxIndex) \cup {root} :
          Add(e, p, 0)
    \/ \E e \in Entities(MaxIndex) : RemoveInTree(e)
    \/ \E e \in Entities(MaxIndex), p \in Entities(MaxIndex) \cup {root} :
          SetParent(e, p)
    \/ \E e \in Entities(MaxIndex) : SetFirstChild(e)
    \/ \E e, s \in Entities(MaxIndex) : SetNextSibling(e, s)
    \/ \E e, s \in Entities(MaxIndex) : SetPrevSibling(e, s)

\* The hierarchy under its six mutators, called on entities of the tree
\* (add: on an entity that has no links, under a parent in the tree).
SpecMut == InitTree /\ [][NextMut]_vars

\* A caller that takes e out of the tree and puts it back under the parent
\* it had: remove(e), then add(e, p).  hpre is the hierarchy before both.
ReAdd(e) ==
    /\ ~halted
    /\ InTree(hierarchy, e)
    /\ get_parent(hierarchy, e) # None
    /\ LET p  == unwrap(get_parent(hierarchy, e))
           c1 == remove(hierarchy, e)
           c2 == IF c1.res = "Ok" THEN add(c1.h, e, p) ELSE c1
       IN  /\ hierarchy' = c2.h
           /\ halted' = Halts(c2.res)
           /\ hlast' = [op |-> "remove_add", entity |-> Some(e),
                        other |-> Some(p), res |-> c2.res]
    /\ hpre' = hierarchy
    /\ UNCHANGED <<avars, pvars, gvars, edges, relinks, set_calls>>

NextReAdd ==
    \/ \E e \in Entities(MaxIndex), p \in Entities(MaxIndex) \cup {root} :
          Add(e, p, 0)
    \/ \E e \in Entities(MaxIndex) : ReAdd(e)

\* Trees built by add, with entities taken out and put back.
SpecReAdd == InitTree /\ [][NextReAdd]_vars

\* The arguments a caller may pass: the entities, the root, the null entity
Arguments == Entities(MaxAnyIndex) \cup {root, null}

\* A call add(e, p), p any argument, e the null entity or an entity that
\* has no links.
AddAny(e, p) ==
    /\ ~halted
    /\ e # root
    /\ e # null => ~Linked(hierarchy, e)
    /\ LET c == add(hierarchy, e, p)
       IN  /\ hierarchy' = c.h
           /\ halted' = Halts(c.res)
           /\ hlast' = [op |-> "add", entity |-> Some(e), other |-> Some(p),
                        res |-> c.res]
           /\ edges' = IF c.res = "Ok"
                       THEN {x \in edges : x[1] # e} \cup {<<e, p>>}
                       ELSE edges
    /\ hpre' = hierarchy
    /\ UNCHANGED <<avars, pvars, gvars, relinks, set_calls>>

\* A call of one of the three set_ methods that return a Result, with any
\* arguments: c is what the call returns.  Only the calls that return Ok
\* count against the cap.
SetAny(op, e, s, c) ==
    /\ ~halted
    /\ c.res = "Ok" => set_calls < MaxAnySetCalls
    /\ set_calls' = IF c.res = "Ok" THEN set_calls + 1 ELSE set_calls
    /\ hierarchy' = c.h
    /\ halted' = Halts(c.res)
    /\ hlast' = [op |-> op, entity |-> Some(e), other |-> s, res |-> c.res]
    /\ hpre' = hierarchy
    /\ UNCHANGED <<avars, pvars, gvars, relinks, edges>>

SetFirstChildAny(e) ==
    SetAny("set_first_child", e, None, set_first_child(hierarchy, e))

SetNextSiblingAny(e, s) ==
    SetAny("set_next_sibling", e, Some(s), set_next_sibling(hierarchy, e, s))

SetPrevSiblingAny(e, s) ==
    SetAny("set_prev_sibling", e, Some(s), set_prev_sibling(hierarchy, e, s))

NextAny ==
    \/ \E e, p \in Arguments : AddAny(e, p)
    \/ \E e \in Arguments : Remove(e)
    \/ \E e \in Arguments : SetFirstChildAny(e)
    \/ \E e, s \in Arguments : SetNextSiblingAny(e, s)
    \/ \E e, s \in Arguments : SetPrevSiblingAny(e, s)

\* The hierarchy under the five mutators that return a Result, called with
\* any arguments.
SpecAny == InitTree /\ [][NextAny]_vars

----------------------------------------------------------------------------
(* Claims on the allocator *)

NoTwoLiveEqual == \A i, j \in 1..Len(live) : i # j => live[i] # live[j]

\* C1, as stated: whatever entity returned by create the destroy calls are
\* given (an entity destroyed before included), no two entities that are
\* alive at the same time are equal.
C1_NoTwoAliveEqual_AnyDestroy == NoTwoLiveEqual

\* C1, amended: as long as every destroy call was given an entity alive at
\* the time of the call, no two entities alive at the same time are equal.
C1_NoTwoAliveEqual == stale_destroys = 0 => NoTwoLiveEqual

\* C1's case: create has just returned a recycled index while another entity
\* is alive, and no destroy call was given a dead entity.
C1_Witness ==
    /\ stale_destroys = 0
    /\ last.op = "create" /\ last.freed
    /\ Len(live) >= 2

\* C2: an entity that was destroyed is not alive in any later state of the
\* allocator.
C2_DestroyedStaysDead ==
    \A e \in dead : ~is_alive(entity_manager, e).value

\* C3: create returns a previously freed index only when the free queue held
\* more than MINIMUM_FREE_INDICES entries at the call; when it held at most
\* that many, the index returned was never issued before.
C3_RecycleOnlyAboveMark ==
    last.op = "create" /\ is_some(last.entity) =>
        /\ last.freed => last.pre_free > MINIMUM_FREE_INDICES
        /\ last.pre_free <= MINIMUM_FREE_INDICES => ~last.issued

\* C3's case: create has recycled an index, the free queue holding one entry
\* more than the mark.
C3_Witness ==
    /\ last.op = "create" /\ last.freed
    /\ last.pre_free = MINIMUM_FREE_INDICES + 1

\* C4: destroy of an entity whose index has the stored generation 255 fails
\* (the call panics) and leaves the stored generation at 255.
C4_GenerationNeverWraps ==
    last.op = "destroy" /\ last.pre_generation = U8_MAX =>
        /\ panicked
        /\ entity_manager.generation[index_unchecked(unwrap(last.entity)) + 1]
               = U8_MAX

----------------------------------------------------------------------------
(* Claims on the hierarchy *)

\* The entities that have a slot in the hierarchy
SlotEntities(h) == {EntityNew(i, 0) : i \in 0..(Len(h.parent) - 1)}

\* The child chain of p: first_child[p], next_sibling, next_sibling, ...
Children(h, p) == ChainFrom(h, Slot(h.first_child, p), Len(h.parent))

\* The child chain of p reaches None.
ChainEnds(h, p) ==
    \/ Slot(h.first_child, p) = None
    \/ LastOfChain(h, unwrap(Slot(h.first_child, p)), Len(h.parent)) # None

NoDuplicates(q) == \A i, j \in 1..Len(q) : i # j => q[i] # q[j]

Pos(q, x) == CHOOSE i \in 1..Len(q) : q[i] = x

Without(q, x) == SelectSeq(q, LAMBDA y : y # x)

\* The last call returned Ok.
Returned(op) == hlast.op = op /\ hlast.res = "Ok"

\* C5: after any sequence of add (of an entity not in the tree, under a
\* parent in the tree) and remove calls, the child chain of every entity p
\* ends in None and visits exactly the entities whose parent is p, each once.
C5_ChildChainIsTheChildren ==
    ~halted =>
        \A q \in SlotEntities(hierarchy) :
            /\ ChainEnds(hierarchy, q)
            /\ NoDuplicates(Children(hierarchy, q))
            /\ SeqSet(Children(hierarchy, q)) =
                   {e \in SlotEntities(hierarchy) : get_parent(hierarchy, e) = Some(q)}

\* C6: after any sequence of calls of the six mutators on entities of the
\* tree, next_sibling[a] = Some(b) exactly when prev_sibling[b] = Some(a).
C6_SiblingLinksAreInverse ==
    ~halted =>
        \A a, b \in SlotEntities(hierarchy) :
            Slot(hierarchy.next_sibling, a) = Some(b)
                <=> Slot(hierarchy.prev_sibling, b) = Some(a)

\* The depth-first iteration from the root
Preorder == Drain("hierarchy", hierarchy, HierarchyIntoIter, Len(hierarchy.parent))

\* The ancestor iteration from e
Ancestors(e) == Drain("parent", hierarchy, parent_iter(e), Len(hierarchy.parent))

\* The entities that add has put in the tree, and the root
Added == {root} \cup {x[1] : x \in edges}

\* C7: in a tree built by add calls alone, the depth-first iteration from
\* the root ends, yields every entity of the tree exactly once, each parent
\* before its children, and the ancestor iteration from every yielded
\* entity ends, the root being the last it yields.
C7_PreorderVisitsTheTree ==
    /\ Preorder.done
    /\ NoDuplicates(Preorder.out)
    /\ SeqSet(Preorder.out) = Added
    /\ \A x \in edges :
          /\ x[1] \in SeqSet(Preorder.out) /\ x[2] \in SeqSet(Preorder.out)
          /\ Pos(Preorder.out, x[2]) < Pos(Preorder.out, x[1])
    /\ \A k \in 1..Len(Preorder.out) :
          LET a == Ancestors(Preorder.out[k])
          IN  a.done /\ Len(a.out) >= 1 /\ a.out[Len(a.out)] = root

\* A tree in which the iteration has to climb: an entity without children
\* and without next sibling, below a child of the root, is followed by
\* another entity.
C7_Witness ==
    /\ Returned("add")
    /\ Preorder.done
    /\ \E k \in 1..(Len(Preorder.out) - 1) :
          /\ ~has_children(hierarchy, Preorder.out[k])
          /\ get_next_sibling(hierarchy, Preorder.out[k]) = None
          /\ get_parent(hierarchy, Preorder.out[k]) # Some(root)

\* C8: after add(entity, parent) returned Ok for an entity not in the tree,
\* get_parent(entity) is parent, get_last_child(parent) is entity,
\* next_sibling[entity] is None, entity has no children, and the child chain
\* of parent is its chain before the call followed by entity.
C8_AddAppendsLastChild ==
    Returned("add") =>
        LET entity == unwrap(hlast.entity)
            parent == unwrap(hlast.other)
        IN  /\ get_parent(hierarchy, entity) = Some(parent)
            /\ get_last_child(hierarchy, parent) = Some(entity)
            /\ get_next_sibling(hierarchy, entity) = None
            /\ ~has_children(hierarchy, entity)
            /\ get_first_child(hierarchy, entity) = None
            /\ Children(hierarchy, parent) = Children(hpre, parent) \o <<entity>>

\* C9: after remove(c) returned Ok for a child c of p, get_num_children(p)
\* is one less than before, c is not in the child chain of p, the chain is
\* the former chain with c taken out, and if c was the first child of p then
\* get_first_child(p) is the former next sibling of c.
C9_RemoveUnlinksChild ==
    Returned("remove") =>
        LET c == unwrap(hlast.entity)
        IN  \A p \in SlotEntities(hpre) :
                is_child_of(hpre, c, p) =>
                    /\ get_num_children(hierarchy, p) =
                           Some(unwrap(get_num_children(hpre, p)) - 1)
                    /\ c \notin SeqSet(Children(hierarchy, p))
                    /\ Children(hierarchy, p) = Without(Children(hpre, p), c)
                    /\ is_first_child(hpre, c) =>
                           get_first_child(hierarchy, p) = get_next_sibling(hpre, c)

PreorderOf(h) == Drain("hierarchy", h, HierarchyIntoIter, Len(h.parent))

\* C11: remove(e) followed by add(e, p), p the parent of e, yields a tree
\* with the same child counts and the same membership as before: every
\* parent has the same set of children and the depth-first iteration from
\* the root visits the same set of entities.
C11_RemoveAddKeepsMembership ==
    Returned("remove_add") =>
        /\ \A q \in SlotEntities(hpre) :
              /\ get_num_children(hierarchy, q) = get_num_children(hpre, q)
              /\ SeqSet(Children(hierarchy, q)) = SeqSet(Children(hpre, q))
        /\ PreorderOf(hierarchy).done
        /\ SeqSet(PreorderOf(hierarchy).out) = SeqSet(PreorderOf(hpre).out)

\* C12: after set_parent(e, p), e and p in the tree and p neither e nor a
\* descendant of e, get_parent(e) is p, e is the last child of p and
\* next_sibling[e] is None, the child chain of the former parent is its
\* former chain with e taken out, the chain of p is its former chain (e
\* taken out) followed by e, and every child chain ends.
C12_SetParentMovesToEnd ==
    Returned("set_parent") =>
        LET e   == unwrap(hlast.entity)
            p   == unwrap(hlast.other)
            old == get_parent(hpre, e)
        IN  /\ get_parent(hierarchy, e) = Some(p)
            /\ get_last_child(hierarchy, p) = Some(e)
            /\ get_next_sibling(hierarchy, e) = None
            /\ old # None /\ old # Some(p) =>
                  Children(hierarchy, unwrap(old)) =
                      Without(Children(hpre, unwrap(old)), e)
            /\ Children(hierarchy, p) = Without(Children(hpre, p), e) \o <<e>>
            /\ \A q \in SlotEntities(hierarchy) : ChainEnds(hierarchy, q)

Reverse(q) == [i \in 1..Len(q) |-> q[Len(q) + 1 - i]]

\* child_iter(p) over h consumed by next alone, and by next_back alone
Forward(h, p) == Drain("child", h, child_iter(h, p), Len(h.parent))

Backward(h, p) == Drain("child_back", h, child_iter(h, p), Len(h.parent))

\* The two consumptions of child_iter(p) end and the second yields the
\* reverse of the first.
IterationsAgree(h, p) ==
    /\ ~child_iter(h, p).hang
    /\ Forward(h, p).done /\ Backward(h, p).done
    /\ Backward(h, p).out = Reverse(Forward(h, p).out)

\* C13: set_first_child(e) on a child e of p returns AlreadyFirstChild if e
\* is the first child of p; otherwise it returns Ok and afterwards
\* first_child[p] is e, prev_sibling[e] is None, next_sibling[e] is the
\* former first child, the other children of p follow in their former
\* order, and forward and backward child iteration over p end and agree.
C13_SetFirstChildMovesToFront ==
    hlast.op = "set_first_child" =>
        LET e == unwrap(hlast.entity)
        IN  \A p \in SlotEntities(hpre) :
                is_child_of(hpre, e, p) =>
                    IF Slot(hpre.first_child, p) = Some(e)
                    THEN hlast.res = "AlreadyFirstChild"
                    ELSE /\ hlast.res = "Ok"
                         /\ Slot(hierarchy.first_child, p) = Some(e)
                         /\ Slot(hierarchy.prev_sibling, e) = None
                         /\ Slot(hierarchy.next_sibling, e) =
                                Slot(hpre.first_child, p)
                         /\ Children(hierarchy, p) =
                                <<e>> \o Without(Children(hpre, p), e)
                         /\ IterationsAgree(hierarchy, p)

\* e and s were two children of p before the last call.
WereSiblings(e, s, p) ==
    /\ e # s
    /\ is_child_of(hpre, e, p) /\ is_child_of(hpre, s, p)

\* C14, set_next_sibling: for two children e and s of p, after
\* set_next_sibling(e, s) returned Ok, next_sibling[e] is s and
\* prev_sibling[s] is e, p has the same set of children, the other children
\* keep their order, and first_child[p] is the head of the chain.
C14_SetNextSiblingPlacesAfter ==
    Returned("set_next_sibling") =>
        LET e == unwrap(hlast.entity)
            s == unwrap(hlast.other)
        IN  \A p \in SlotEntities(hpre) :
                WereSiblings(e, s, p) =>
                    /\ Slot(hierarchy.next_sibling, e) = Some(s)
                    /\ Slot(hierarchy.prev_sibling, s) = Some(e)
                    /\ ChainEnds(hierarchy, p)
                    /\ SeqSet(Children(hierarchy, p)) = SeqSet(Children(hpre, p))
                    /\ Without(Children(hierarchy, p), s) =
                           Without(Children(hpre, p), s)
                    /\ get_prev_sibling(hierarchy,
                           unwrap(Slot(hierarchy.first_child, p))) = None

\* C14, set_prev_sibling: for two children e and s of p, after
\* set_prev_sibling(e, s) returned Ok, prev_sibling[e] is s and
\* next_sibling[s] is e, p has the same set of children, the other children
\* keep their order, and first_child[p] is the head of the chain.
C14_SetPrevSiblingPlacesBefore ==
    Returned("set_prev_sibling") =>
        LET e == unwrap(hlast.entity)
            s == unwrap(hlast.other)
        IN  \A p \in SlotEntities(hpre) :
                WereSiblings(e, s, p) =>
                    /\ Slot(hierarchy.prev_sibling, e) = Some(s)
                    /\ Slot(hierarchy.next_sibling, s) = Some(e)
                    /\ ChainEnds(hierarchy, p)
                    /\ SeqSet(Children(hierarchy, p)) = SeqSet(Children(hpre, p))
                    /\ Without(Children(hierarchy, p), s) =
                           Without(Children(hpre, p), s)
                    /\ get_prev_sibling(hierarchy,
                           unwrap(Slot(hierarchy.first_child, p))) = None

\* C14: both parts.
C14_SetSiblingRepositions ==
    C14_SetNextSiblingPlacesAfter /\ C14_SetPrevSiblingPlacesBefore

\* C15: set_next_sibling(entity, sibling) and set_prev_sibling(entity,
\* sibling), called with two entities that have different parents, return
\* InvalidSibling and leave the hierarchy unchanged.
C15_CrossParentIsInvalidSibling ==
    /\ hlast.op \in {"set_next_sibling", "set_prev_sibling"}
    /\ get_parent(hpre, unwrap(hlast.entity)) # None
    /\ get_parent(hpre, unwrap(hlast.other)) # None
    /\ get_parent(hpre, unwrap(hlast.entity)) # get_parent(hpre, unwrap(hlast.other))
    => /\ hlast.res = "InvalidSibling"
       /\ hierarchy = hpre

\* p is a node known to h: the root, or an entity that was added and not
\* removed since (add sets its parent, remove clears it).
Known(h, p) ==
    \/ p = root
    \/ /\ p # null
       /\ index_unchecked(p) < Len(h.parent)
       /\ Slot(h.parent, p) # None

\* C16: add(entity, parent) returns NullEntity if either argument is the
\* null entity, returns InvalidParent when parent is not a node known to the
\* hierarchy (index out of range, or in range but never added or removed),
\* and returns Ok only when parent is the root or an entity linked in the
\* tree.
C16_AddChecksItsParent ==
    hlast.op = "add" =>
        LET e == unwrap(hlast.entity)
            p == unwrap(hlast.other)
        IN  IF e = null \/ p = null THEN hlast.res = "NullEntity"
            ELSE IF ~Known(hpre, p) THEN hlast.res = "InvalidParent"
            ELSE hlast.res = "Ok" => p = root \/ InTree(hpre, p)

HierarchyErrors ==
    {"NoEntity", "InvalidParent", "InvalidSibling", "NullEntity",
     "AlreadySibling", "AlreadyFirstChild"}

\* C17: whenever add, remove, set_first_child, set_next_sibling or
\* set_prev_sibling returns an error, the parent, first_child, next_sibling
\* and prev_sibling vectors and the changed flag are as they were before the
\* call.
C17_ErrorsChangeNothing ==
    /\ hlast.op \in {"add", "remove", "set_first_child", "set_next_sibling",
                     "set_prev_sibling"}
    /\ hlast.res \in HierarchyErrors
    => /\ hierarchy.parent = hpre.parent
       /\ hierarchy.first_child = hpre.first_child
       /\ hierarchy.next_sibling = hpre.next_sibling
       /\ hierarchy.prev_sibling = hpre.prev_sibling
       /\ hierarchy.changed = hpre.changed

\* add returned InvalidParent for an entity that has no slot yet
C17_Witness ==
    /\ hlast.op = "add" /\ hlast.res = "InvalidParent"
    /\ index_unchecked(unwrap(hlast.entity)) >= Len(hpre.parent)
    /\ hierarchy = hpre

\* C18: set_first_child, set_next_sibling, set_prev_sibling and remove,
\* called with an in-range entity that has no parent (the root, or a removed
\* entity), return Ok or a HierarchyError: the call does not panic.
C18_NoParentDoesNotAbort ==
    /\ hlast.op \in {"set_first_child", "set_next_sibling", "set_prev_sibling",
                     "remove"}
    /\ unwrap(hlast.entity) # null
    /\ index_unchecked(unwrap(hlast.entity)) < Len(hpre.parent)
    /\ get_parent(hpre, unwrap(hlast.entity)) = None
    => hlast.res \in HierarchyErrors \cup {"Ok"}

\* C19: for every entity p in a tree built by add and remove, child_iter(p)
\* consumed by next_back alone ends and yields the reverse of what it yields
\* consumed by next alone.
C19_BackwardIsForwardReversed ==
    ~halted =>
        \A p \in SlotEntities(hierarchy) :
            InTree(hierarchy, p) => IterationsAgree(hierarchy, p)

----------------------------------------------------------------------------
(* The property setters and the flags of the three passes *)

\* The State as a PropSet method is handed it
TheState ==
    [style |-> style, needs_restyle |-> needs_restyle,
     needs_relayout |-> needs_relayout, needs_redraw |-> needs_redraw]

\* PropSet::set_left
set_left(st, self, value) ==
    [st EXCEPT !.style.left[self] = Some(value),
               !.needs_relayout = TRUE,
               !.needs_redraw = TRUE]

\* PropSet::set_right
set_right(st, self, value) ==
    [st EXCEPT !.style.right[self] = Some(value),
               !.needs_relayout = TRUE,
               !.needs_redraw = TRUE]

\* PropSet::set_top
set_top(st, self, value) ==
    [st EXCEPT !.style.top[self] = Some(value),
               !.needs_relayout = TRUE,
               !.needs_redraw = TRUE]

\* PropSet::set_bottom
set_bottom(st, self, value) ==
    [st EXCEPT !.style.bottom[self] = Some(value),
               !.needs_relayout = TRUE,
               !.needs_redraw = TRUE]

\* PropSet::set_width
set_width(st, self, value) ==
    [st EXCEPT !.style.width[self] = Some(value),
               !.needs_relayout = TRUE,
               !.needs_redraw = TRUE]

\* PropSet::set_height
set_height(st, self, value) ==
    [st EXCEPT !.style.height[self] = Some(value),
               !.needs_relayout = TRUE,
               !.needs_redraw = TRUE]

\* PropSet::set_text: the text of the entity's Text, inserted if it has none
set_text(st, self, value) ==
    [st EXCEPT !.style.text[self] =
                   IF @ # None THEN Some([unwrap(@) EXCEPT !.text = value])
                   ELSE Some([text |-> value, font |-> 0]),
               !.needs_relayout = TRUE,
               !.needs_redraw = TRUE]

\* Mutant of PropSet::set_font_color: the layout pass is asked for too.
set_font_color_relayout(st, self, value) ==
    [st EXCEPT !.style.font_color[self] = Some(value),
               !.needs_relayout = TRUE,
               !.needs_redraw = TRUE]

\* PropSet::set_font_color
set_font_color(st, self, value) ==
    [st EXCEPT !.style.font_color[self] = Some(value),
               !.needs_redraw = TRUE]

\* PropSet::set_text_justify
set_text_justify(st, self, value) ==
    [st EXCEPT !.style.text_justify[self] = Some(value),
               !.needs_redraw = TRUE]

\* PropSet::set_text_align
set_text_align(st, self, value) ==
    [st EXCEPT !.style.text_align[self] = Some(value),
               !.needs_redraw = TRUE]

\* Mutant of PropSet::set_background_color: the pending layout is dropped.
set_background_color_clears(st, self, value) ==
    [st EXCEPT !.style.background_color[self] = Some(value),
               !.needs_relayout = FALSE,
               !.needs_redraw = TRUE]

\* PropSet::set_background_color
set_background_color(st, self, value) ==
    [st EXCEPT !.style.background_color[self] = Some(value),
               !.needs_redraw = TRUE]

\* PropSet::set_border_color
set_border_color(st, self, value) ==
    [st EXCEPT !.style.border_color[self] = Some(value),
               !.needs_redraw = TRUE]

\* PropSet::set_border_radius
set_border_radius(st, self, value) ==
    [st EXCEPT !.style.border_radius_top_left[self] = Some(value),
               !.style.border_radius_top_right[self] = Some(value),
               !.style.border_radius_bottom_left[self] = Some(value),
               !.style.border_radius_bottom_right[self] = Some(value),
               !.needs_redraw = TRUE]

\* PropSet::set_border_radius_top_left
set_border_radius_top_left(st, self, value) ==
    [st EXCEPT !.style.border_radius_top_left[self] = Some(value),
               !.needs_redraw = TRUE]

\* PropSet::set_border_radius_top_right
set_border_radius_top_right(st, self, value) ==
    [st EXCEPT !.style.border_radius_top_right[self] = Some(value),
               !.needs_redraw = TRUE]

\* PropSet::set_border_radius_bottom_left
set_border_radius_bottom_left(st, self, value) ==
    [st EXCEPT !.style.border_radius_bottom_left[self] = Some(value),
               !.needs_redraw = TRUE]

\* PropSet::set_border_radius_bottom_right
set_border_radius_bottom_right(st, self, value) ==
    [st EXCEPT !.style.border_radius_bottom_right[self] = Some(value),
               !.needs_redraw = TRUE]

\* PropSet::set_margin
set_margin(st, self, value) ==
    [st EXCEPT !.style.margin_left[self] = Some(value),
               !.style.margin_right[self] = Some(value),
               !.style.margin_top[self] = Some(value),
               !.style.margin_bottom[self] = Some(value),
               !.needs_relayout = TRUE,
               !.needs_redraw = TRUE]

\* PropSet::set_margin_left
set_margin_left(st, self, value) ==
    [st EXCEPT !.style.margin_left[self] = Some(value),
               !.needs_relayout = TRUE,
               !.needs_redraw = TRUE]

\* PropSet::set_margin_right
set_margin_right(st, self, value) ==
    [st EXCEPT !.style.margin_right[self] = Some(value),
               !.needs_relayout = TRUE,
               !.needs_redraw = TRUE]

\* PropSet::set_margin_top
set_margin_top(st, self, value) ==
    [st EXCEPT !.style.margin_top[self] = Some(value),
               !.needs_relayout = TRUE,
               !.needs_redraw = TRUE]

\* PropSet::set_margin_bottom
set_margin_bottom(st, self, value) ==
    [st EXCEPT !.style.margin_bottom[self] = Some(value),
               !.needs_relayout = TRUE,
               !.needs_redraw = TRUE]

\* PropSet::set_padding
set_padding(st, self, value) ==
    [st EXCEPT !.style.padding_left[self] = Some(value),
               !.style.padding_right[self] = Some(value),
               !.style.padding_top[self] = Some(value),
               !.style.padding_bottom[self] = Some(value),
               !.needs_relayout = TRUE,
               !.needs_redraw = TRUE]

\* PropSet::set_padding_left
set_padding_left(st, self, value) ==
    [st EXCEPT !.style.padding_left[self] = Some(value),
               !.needs_relayout = TRUE,
               !.needs_redraw = TRUE]

\* PropSet::set_padding_right
set_padding_right(st, self, value) ==
    [st EXCEPT !.style.padding_right[self] = Some(value),
               !.needs_relayout = TRUE,
               !.needs_redraw = TRUE]

\* PropSet::set_padding_top
set_padding_top(st, self, value) ==
    [st EXCEPT !.style.padding_top[self] = Some(value),
               !.needs_relayout = TRUE,
               !.needs_redraw = TRUE]

\* PropSet::set_padding_bottom
set_padding_bottom(st, self, value) ==
    [st EXCEPT !.style.padding_bottom[self] = Some(value),
               !.needs_relayout = TRUE,
               !.needs_redraw = TRUE]

\* PropSet::class
class(st, self, class_name) ==
    [st EXCEPT !.style.classes[self] = Some(class_name)]

\* PropSet::set_element
set_element(st, self, value) ==
    [st EXCEPT !.style.elements[self] = Some(value)]

\* PropSet::set_id
set_id(st, self, value) ==
    [st EXCEPT !.style.ids[self] = Some(value)]

\* PropSet::set_class
set_class(st, self, value) ==
    [st EXCEPT !.style.classes[self] = Some(value)]

\* PropSet::set_tooltip
set_tooltip(st, self, value) ==
    [st EXCEPT !.style.tooltip[self] = Some(value)]

\* PropSet::set_enabled, set_disabled, set_checked, set_over, set_active,
\* set_hover, set_focus: the pseudo class `name` of the entity, if it has
\* pseudo classes (set_enabled and set_disabled write each other's
\* complement); set_checked asks for all three passes, the others for the
\* style pass.
set_pseudo_class(st, name, self, value) ==
    LET other == IF name = "enabled" THEN "disabled" ELSE "enabled"
        paired == name \in {"enabled", "disabled"}
    IN  [st EXCEPT !.style.pseudo_classes[self] =
                       IF @ = None THEN @
                       ELSE Some([f \in DOMAIN unwrap(@) |->
                                     IF f = name THEN value
                                     ELSE IF paired /\ f = other THEN ~value
                                     ELSE unwrap(@)[f]]),
                   !.needs_restyle = TRUE,
                   !.needs_relayout = IF name = "checked" THEN TRUE ELSE @,
                   !.needs_redraw = IF name = "checked" THEN TRUE ELSE @]

\* PropSet::set_visibility, set_overflow, set_display, set_opacity,
\* set_rotate, set_flex_direction, set_justify_content, set_align_content,
\* set_align_items, set_flex_grow, set_flex_shrink, set_flex_basis,
\* set_align_self, set_position, set_min_width, set_max_width,
\* set_min_height, set_max_height, set_font_size, set_border_width,
\* set_clip_widget, set_z_order: state.style.<field>.insert(self, value),
\* then the layout and the draw pass are asked for.
set_layout_field(st, field, self, value) ==
    [st EXCEPT !.style[field][self] = Some(value),
               !.needs_relayout = TRUE,
               !.needs_redraw = TRUE]

\* PropSet::set_font: the font of the entity's Text, inserted if it has none
set_font(st, self, value) ==
    [st EXCEPT !.style.text[self] =
                   IF @ # None THEN Some([unwrap(@) EXCEPT !.font = value])
                   ELSE Some([text |-> 0, font |-> value]),
               !.needs_relayout = TRUE,
               !.needs_redraw = TRUE]

\* PropSet::set_background_image
set_background_image(st, self, value) ==
    [st EXCEPT !.style.background_image[self] = Some(value),
               !.needs_redraw = TRUE]

\* PropSet::set_next_focus, set_prev_focus, set_focus_order: the fields
\* `which` of the entity's FocusOrder, inserted if it has none (the default
\* of an Entity is null)
set_focus_fields(st, which, self, next, prev) ==
    LET old == IF st.style.focus_order[self] # None
               THEN unwrap(st.style.focus_order[self])
               ELSE [next |-> null, prev |-> null]
    IN  [st EXCEPT !.style.focus_order[self] =
                       Some([next |-> IF "next" \in which THEN next ELSE old.next,
                             prev |-> IF "prev" \in which THEN prev ELSE old.prev]),
                   !.needs_relayout = TRUE,
                   !.needs_redraw = TRUE]

\* A PropSet call that leaves the state st
PropCall(op, st) ==
    /\ prop_calls < MaxPropCalls
    /\ style' = st.style
    /\ needs_restyle' = st.needs_restyle
    /\ needs_relayout' = st.needs_relayout
    /\ needs_redraw' = st.needs_redraw
    /\ plast' = [op |-> op, needs_restyle |-> needs_restyle,
                 needs_relayout |-> needs_relayout,
                 needs_redraw |-> needs_redraw]
    /\ prop_calls' = prop_calls + 1
    /\ UNCHANGED <<avars, hvars, gvars, passes, wlast>>

\* The setters of the pseudo classes: set_enabled, ..., set_focus
PseudoClassSetters ==
    {"set_" \o c : c \in {"enabled", "disabled", "checked", "over", "active",
                          "hover", "focus"}}

\* The pseudo class the setter op writes
PseudoClassOf(op) ==
    CHOOSE c \in {"enabled", "disabled", "checked", "over", "active", "hover",
                  "focus"} : op = "set_" \o c

\* The tables whose setter inserts the value and asks for layout and draw
LayoutFields ==
    {"visibility", "overflow", "display",
     "opacity", "rotate", "flex_direction",
     "justify_content", "align_content", "align_items",
     "flex_grow", "flex_shrink", "flex_basis",
     "align_self", "position", "min_width",
     "max_width", "min_height", "max_height",
     "font_size", "border_width", "clip_widget",
     "z_order"}

LayoutFieldSetters == {"set_" \o f : f \in LayoutFields}

\* The table the setter op inserts into
LayoutFieldOf(op) == CHOOSE f \in LayoutFields : op = "set_" \o f

\* The property setters of the PropSet trait
PropSetters ==
    {"set_left", "set_right", "set_top",
     "set_bottom", "set_width", "set_height",
     "set_text", "set_font_color", "set_text_justify",
     "set_text_align", "set_background_color", "set_border_color",
     "set_border_radius", "set_border_radius_top_left", "set_border_radius_top_right",
     "set_border_radius_bottom_left", "set_border_radius_bottom_right", "set_margin",
     "set_margin_left", "set_margin_right", "set_margin_top",
     "set_margin_bottom", "set_padding", "set_padding_left",
     "set_padding_right", "set_padding_top", "set_padding_bottom",
     "class", "set_element", "set_id",
     "set_class", "set_tooltip", "set_font",
     "set_background_image", "set_next_focus", "set_prev_focus",
     "set_focus_order"}
    \cup PseudoClassSetters \cup LayoutFieldSetters

\* The state the setter op leaves, called on the entity self with the value v
PropSetCall(op, st, self, v) ==
    CASE op = "set_left" -> set_left(st, self, v)
      [] op = "set_right" -> set_right(st, self, v)
      [] op = "set_top" -> set_top(st, self, v)
      [] op = "set_bottom" -> set_bottom(st, self, v)
      [] op = "set_width" -> set_width(st, self, v)
      [] op = "set_height" -> set_height(st, self, v)
      [] op = "set_text" -> set_text(st, self, v)
      [] op = "set_font_color" -> set_font_color(st, self, v)
      [] op = "set_text_justify" -> set_text_justify(st, self, v)
      [] op = "set_text_align" -> set_text_align(st, self, v)
      [] op = "set_background_color" -> set_background_color(st, self, v)
      [] op = "set_border_color" -> set_border_color(st, self, v)
      [] op = "set_border_radius" -> set_border_radius(st, self, v)
      [] op = "set_border_radius_top_left" -> set_border_radius_top_left(st, self, v)
      [] op = "set_border_radius_top_right" -> set_border_radius_top_right(st, self, v)
      [] op = "set_border_radius_bottom_left" -> set_border_radius_bottom_left(st, self, v)
      [] op = "set_border_radius_bottom_right" -> set_border_radius_bottom_right(st, self, v)
      [] op = "set_margin" -> set_margin(st, self, v)
      [] op = "set_margin_left" -> set_margin_left(st, self, v)
      [] op = "set_margin_right" -> set_margin_right(st, self, v)
      [] op = "set_margin_top" -> set_margin_top(st, self, v)
      [] op = "set_margin_bottom" -> set_margin_bottom(st, self, v)
      [] op = "set_padding" -> set_padding(st, self, v)
      [] op = "set_padding_left" -> set_padding_left(st, self, v)
      [] op = "set_padding_right" -> set_padding_right(st, self, v)
      [] op = "set_padding_top" -> set_padding_top(st, self, v)
      [] op = "set_padding_bottom" -> set_padding_bottom(st, self, v)
      [] op = "class" -> class(st, self, v)
      [] op = "set_element" -> set_element(st, self, v)
      [] op = "set_id" -> set_id(st, self, v)
      [] op = "set_class" -> set_class(st, self, v)
      [] op = "set_tooltip" -> set_tooltip(st, self, v)
      [] op = "set_font" -> set_font(st, self, v)
      [] op = "set_background_image" -> set_background_image(st, self, v)
      [] op \in PseudoClassSetters ->
            set_pseudo_class(st, PseudoClassOf(op), self, v = 1)
      [] op \in LayoutFieldSetters ->
            set_layout_field(st, LayoutFieldOf(op), self, v)
      [] op = "set_next_focus" ->
            set_focus_fields(st, {"next"}, self, EntityNew(v, 0), null)
      [] op = "set_prev_focus" ->
            set_focus_fields(st, {"prev"}, self, null, EntityNew(v, 0))
      [] op = "set_focus_order" ->
            set_focus_fields(st, {"next", "prev"}, self, EntityNew(v, 0),
                             EntityNew(v, 0))

\* A call of the setter op
Set(op, e, v) == PropCall(op, PropSetCall(op, TheState, e, v))

NextProp ==
    \E op \in PropSetters, e \in PropEntities, v \in PropValues : Set(op, e, v)

\* The flags are as the frame loop left them when the setters are called
InitProp ==
    /\ InitManager /\ overflow_checks = FALSE
    /\ InitHier
    /\ InitStyle /\ InitGeometry
    /\ needs_restyle \in BOOLEAN
    /\ needs_relayout \in BOOLEAN
    /\ needs_redraw \in BOOLEAN

SpecProp == InitProp /\ [][NextProp]_vars

----------------------------------------------------------------------------
(* widgets/window.rs: the window widget's handling of the three signals *)

\* A pass of the systems module (apply_styles, apply_z_ordering,
\* apply_transform, apply_visibility, apply_layout2, apply_hover): an
\* external collaborator that reads the hierarchy it is handed and writes
\* resolved tables; r is the state so far and the passes run so far.
RunPass(r, pass, h) ==
    [state |-> r.state,
     passes |-> Append(r.passes, [pass |-> pass, hierarchy |-> h])]

\* Mutant of WindowWidget::on_event: the Relayout arm resolves visibility
\* after the layout.
on_event_layout_first(st, h, window_event) ==
    LET r0 == [state |-> st, passes |-> <<>>]
    IN  CASE window_event = "Restyle" ->
                 RunPass(r0, "apply_styles", Some(h))
          [] window_event = "Relayout" ->
                 LET r1 == [state |-> [st EXCEPT !.needs_redraw = TRUE],
                            passes |-> <<>>]
                     r2 == RunPass(r1, "apply_z_ordering", Some(h))
                     r3 == RunPass(r2, "apply_transform", Some(h))
                     r4 == RunPass(r3, "apply_layout2", Some(h))
                     r5 == RunPass(r4, "apply_visibility", Some(h))
                 IN  RunPass(r5, "apply_hover", None)
          [] window_event = "Redraw" ->
                 LET r1 == RunPass(r0, "apply_transform", Some(h))
                 IN  [r1 EXCEPT !.state.needs_redraw = TRUE]
          [] OTHER -> r0

\* Mutant of WindowWidget::on_event: the Redraw arm orders the entities
\* again before it resolves the transforms.
on_event_redraw_z_order(st, h, window_event) ==
    LET r0 == [state |-> st, passes |-> <<>>]
    IN  CASE window_event = "Restyle" ->
                 RunPass(r0, "apply_styles", Some(h))
          [] window_event = "Relayout" ->
                 LET r1 == [state |-> [st EXCEPT !.needs_redraw = TRUE],
                            passes |-> <<>>]
                     r2 == RunPass(r1, "apply_z_ordering", Some(h))
                     r3 == RunPass(r2, "apply_transform", Some(h))
                     r4 == RunPass(r3, "apply_visibility", Some(h))
                     r5 == RunPass(r4, "apply_layout2", Some(h))
                 IN  RunPass(r5, "apply_hover", None)
          [] window_event = "Redraw" ->
                 LET r1 == RunPass(r0, "apply_z_ordering", Some(h))
                     r2 == RunPass(r1, "apply_transform", Some(h))
                 IN  [r2 EXCEPT !.state.needs_redraw = TRUE]
          [] OTHER -> r0

\* WindowWidget::on_event, h the hierarchy of the state: the arms of
\* WindowEvent::Restyle, Relayout and Redraw; WindowClose and Debug print,
\* and every other event falls through.
on_event(st, h, window_event) ==
    LET r0 == [state |-> st, passes |-> <<>>]
    IN  CASE window_event = "Restyle" ->
                 RunPass(r0, "apply_styles", Some(h))
          [] window_event = "Relayout" ->
                 LET r1 == [state |-> [st EXCEPT !.needs_redraw = TRUE],
                            passes |-> <<>>]
                     r2 == RunPass(r1, "apply_z_ordering", Some(h))
                     r3 == RunPass(r2, "apply_transform", Some(h))
                     r4 == RunPass(r3, "apply_visibility", Some(h))
                     r5 == RunPass(r4, "apply_layout2", Some(h))
                 IN  RunPass(r5, "apply_hover", None)
          [] window_event = "Redraw" ->
                 LET r1 == RunPass(r0, "apply_transform", Some(h))
                 IN  [r1 EXCEPT !.state.needs_redraw = TRUE]
          [] OTHER -> r0

WindowEvents == {"WindowClose", "Restyle", "Relayout", "Redraw"}

\* The window widget is handed the event ev
OnEvent(ev) ==
    LET r == on_event(TheState, hierarchy, ev)
    IN  /\ style' = r.state.style
        /\ needs_restyle' = r.state.needs_restyle
        /\ needs_relayout' = r.state.needs_relayout
        /\ needs_redraw' = r.state.needs_redraw
        /\ passes' = r.passes
        /\ wlast' = [event |-> ev, needs_restyle |-> needs_restyle,
                     needs_relayout |-> needs_relayout,
                     needs_redraw |-> needs_redraw, hierarchy |-> hierarchy,
                     prop_calls |-> prop_calls]
        /\ UNCHANGED <<avars, hvars, gvars, plast, prop_calls>>

\* A setter call between two events
SetBetweenEvents(op, e, v) == prop_calls < MaxWindowPropCalls /\ Set(op, e, v)

NextWindow ==
    \/ \E ev \in WindowEvents : OnEvent(ev)
    \/ \E op \in PropSetters, e \in PropEntities, v \in PropValues :
           SetBetweenEvents(op, e, v)
    \/ \E e \in Entities(MaxAnyIndex), p \in Entities(MaxAnyIndex) \cup {root} :
           Add(e, p, 0)

SpecWindow == InitProp /\ [][NextWindow]_vars

----------------------------------------------------------------------------
(* layout/mod.rs: the geometry_changed pass *)

\* tree.down_iter(): the entities of the tree, from the root down
down_iter(tree) == PreorderOf(tree).out

RECURSIVE geometry_changed_clear_first(_, _, _)
\* Mutant of geometry_changed: the changed-bits are reset before they are read.
geometry_changed_clear_first(st, nodes, i) ==
    IF i > Len(nodes) THEN st
    ELSE LET node == nodes[i]
             cleared == [st.data EXCEPT ![node] = {}]
             geometry_changed_bits == cleared[node]
             event == [message |->
                           [posx |-> "POSX_CHANGED" \in geometry_changed_bits,
                            posy |-> "POSY_CHANGED" \in geometry_changed_bits,
                            width |-> "WIDTH_CHANGED" \in geometry_changed_bits,
                            height |-> "HEIGHT_CHANGED" \in geometry_changed_bits],
                       target |-> node,
                       propagation |-> "Down"]
         IN  geometry_changed_clear_first(
                 [data |-> cleared,
                  event_queue |-> Append(st.event_queue, event)],
                 nodes, i + 1)

RECURSIVE geometry_changed_keeps_width(_, _, _)
\* Mutant of geometry_changed: POSX_CHANGED is reset twice and WIDTH_CHANGED
\* not at all.
geometry_changed_keeps_width(st, nodes, i) ==
    IF i > Len(nodes) THEN st
    ELSE LET node == nodes[i]
             geometry_changed_bits == st.data[node]
             event == [message |->
                           [posx |-> "POSX_CHANGED" \in geometry_changed_bits,
                            posy |-> "POSY_CHANGED" \in geometry_changed_bits,
                            width |-> "WIDTH_CHANGED" \in geometry_changed_bits,
                            height |-> "HEIGHT_CHANGED" \in geometry_changed_bits],
                       target |-> node,
                       propagation |-> "Down"]
         IN  geometry_changed_keeps_width(
                 [data |-> [st.data EXCEPT
                                ![node] = (((@ \ {"POSX_CHANGED"})
                                               \ {"POSY_CHANGED"})
                                               \ {"POSX_CHANGED"})
                                               \ {"HEIGHT_CHANGED"}],
                  event_queue |-> Append(st.event_queue, event)],
                 nodes, i + 1)

RECURSIVE geometry_changed(_, _, _)
\* geometry_changed(state, tree), from the i-th node of tree.down_iter() on:
\* the event built from the node's changed-bits is inserted, then the four
\* bits are reset.
geometry_changed(st, nodes, i) ==
    IF i > Len(nodes) THEN st
    ELSE LET node == nodes[i]
             geometry_changed_bits == st.data[node]
             event == [message |->
                           [posx |-> "POSX_CHANGED" \in geometry_changed_bits,
                            posy |-> "POSY_CHANGED" \in geometry_changed_bits,
                            width |-> "WIDTH_CHANGED" \in geometry_changed_bits,
                            height |-> "HEIGHT_CHANGED" \in geometry_changed_bits],
                       target |-> node,
                       propagation |-> "Down"]
         IN  geometry_changed(
                 [data |-> [st.data EXCEPT
                                ![node] = (((@ \ {"POSX_CHANGED"})
                                               \ {"POSY_CHANGED"})
                                               \ {"WIDTH_CHANGED"})
                                               \ {"HEIGHT_CHANGED"}],
                  event_queue |-> Append(st.event_queue, event)],
                 nodes, i + 1)

\* The layout resolves a box of the entity e that differs from the previous
\* one on the axes `bits`
LayoutChanges(e, bits) ==
    /\ geo_changes < MaxGeoChanges
    /\ InTree(hierarchy, e)
    /\ data' = [data EXCEPT ![e] = @ \cup bits]
    /\ geo_changes' = geo_changes + 1
    /\ UNCHANGED <<avars, hvars, pvars, event_queue, glast, geo_passes>>

\* The geometry_changed pass over the hierarchy
GeometryChangedPass ==
    LET st == geometry_changed([data |-> data, event_queue |-> event_queue],
                               down_iter(hierarchy), 1)
    IN  /\ geo_passes < MaxGeoPasses
        /\ data' = st.data
        /\ event_queue' = st.event_queue
        /\ glast' = [hierarchy |-> hierarchy, data |-> data,
                     queued |-> Len(event_queue),
                     geo_changes |-> geo_changes,
                     again |-> geo_passes > 0 /\ glast.geo_changes = geo_changes]
        /\ geo_passes' = geo_passes + 1
        /\ UNCHANGED <<avars, hvars, pvars, geo_changes>>

NextGeometry ==
    \/ \E e \in GeoEntities \ {root}, p \in GeoEntities : Add(e, p, 0)
    \/ \E e \in GeoEntities, bits \in (SUBSET GeometryBits) \ {{}} :
           LayoutChanges(e, bits)
    \/ GeometryChangedPass

SpecGeometry == InitTree /\ [][NextGeometry]_vars

----------------------------------------------------------------------------
(* Claims on the property setters *)

GeometrySetters ==
    {"set_left", "set_right", "set_top",
     "set_bottom", "set_width", "set_height",
     "set_text", "set_margin", "set_margin_left",
     "set_margin_right", "set_margin_top", "set_margin_bottom",
     "set_padding", "set_padding_left", "set_padding_right",
     "set_padding_top", "set_padding_bottom"}

PaintSetters ==
    {"set_font_color", "set_text_justify", "set_text_align",
     "set_background_color", "set_border_color", "set_border_radius",
     "set_border_radius_top_left", "set_border_radius_top_right", "set_border_radius_bottom_left",
     "set_border_radius_bottom_right"}

\* C20: after a setter of a geometry-affecting property needs_relayout and
\* needs_redraw are both true; after a setter of a paint-only property
\* needs_redraw is true and needs_relayout and needs_restyle are what they
\* were before the call.
C20_SettersMarkTheirPasses ==
    /\ plast.op \in GeometrySetters => needs_relayout /\ needs_redraw
    /\ plast.op \in PaintSetters =>
           /\ needs_redraw
           /\ needs_relayout = plast.needs_relayout
           /\ needs_restyle = plast.needs_restyle

\* set_font_color called with only the style pass pending
C20_Witness ==
    /\ plast.op = "set_font_color"
    /\ plast.needs_restyle /\ ~plast.needs_relayout /\ ~plast.needs_redraw
    /\ needs_restyle /\ ~needs_relayout /\ needs_redraw
    /\ \E e \in PropEntities : style.font_color[e] # None

\* C21: the three flags are sticky.  A PropSet setter call never takes a flag
\* from true to false; needs_restyle falls only in a step of the window
\* widget that ran the style pass, needs_relayout only in one that ran the
\* layout pass, and needs_redraw in no setter call.
C21_FlagsAreSticky ==
    [][/\ prop_calls' # prop_calls =>
              /\ needs_restyle => needs_restyle'
              /\ needs_relayout => needs_relayout'
              /\ needs_redraw => needs_redraw'
       /\ needs_restyle /\ ~needs_restyle' =>
              \E i \in 1..Len(passes') : passes'[i].pass = "apply_styles"
       /\ needs_relayout /\ ~needs_relayout' =>
              \E i \in 1..Len(passes') : passes'[i].pass = "apply_layout2"]_vars

\* A paint setter called with all three passes pending
C21_Witness ==
    /\ plast.op = "set_background_color"
    /\ plast.needs_restyle /\ plast.needs_relayout /\ plast.needs_redraw
    /\ needs_restyle /\ needs_relayout /\ needs_redraw

\* C22: every PropSet setter leaves at least one of the three flags true.
C22_EverySetterAsksForAPass ==
    plast.op \in PropSetters =>
        needs_restyle \/ needs_relayout \/ needs_redraw

\* The window widget has handled the event ev and no setter was called since
Handled(ev) == wlast.event = ev /\ wlast.prop_calls = prop_calls

PassNames == [i \in 1..Len(passes) |-> passes[i].pass]

\* C23: when the window widget has handled a Restyle signal the style pass
\* has run once, over the hierarchy as it was at dispatch, no other pass has
\* run and needs_restyle is false.
C23_RestyleRunsStylesAndClears ==
    Handled("Restyle") =>
        /\ passes = <<[pass |-> "apply_styles",
                       hierarchy |-> Some(wlast.hierarchy)]>>
        /\ ~needs_restyle

\* C24: when the window widget has handled a Relayout signal needs_redraw is
\* true and needs_relayout is false.
C24_RelayoutSetsRedrawAndClears ==
    Handled("Relayout") => needs_redraw /\ ~needs_relayout

\* C30: handling a Relayout signal runs z-ordering, transform resolution,
\* visibility resolution, layout solving and hover recomputation, each once
\* and in this order, and not the style pass.
C30_RelayoutPassOrder ==
    wlast.event = "Relayout" =>
        PassNames = <<"apply_z_ordering", "apply_transform", "apply_visibility",
                      "apply_layout2", "apply_hover">>

\* A Relayout handled after a layout setter, on a tree with a child
C30_Witness ==
    /\ Handled("Relayout")
    /\ wlast.needs_relayout /\ prop_calls = 1
    /\ Len(passes) = 5
    /\ get_first_child(hierarchy, root) # None

----------------------------------------------------------------------------
(* Claims on the geometry_changed pass *)

RECURSIVE SubtreePreorder(_, _, _)
\* The entity e, then the subtrees of its children in the order of the
\* child chain
SubtreePreorder(h, e, fuel) ==
    LET kids == ChainFrom(h, get_first_child(h, e), Len(h.parent))
        RECURSIVE Join(_)
        Join(i) == IF i > Len(kids) THEN <<>>
                   ELSE SubtreePreorder(h, kids[i], fuel - 1) \o Join(i + 1)
    IN  IF fuel = 0 THEN <<e>> ELSE <<e>> \o Join(1)

\* The events the last geometry_changed pass inserted
Emitted == SubSeq(event_queue, glast.queued + 1, Len(event_queue))

\* C25: the events of a geometry_changed pass are, in preorder of the tree,
\* one per entity, targeted at it, propagating Down, and with posx, posy,
\* width, height equal to the entity's changed-bits at the start of the pass.
C25_EventsCarryTheChangedBits ==
    geo_passes > 0 =>
        LET nodes == SubtreePreorder(glast.hierarchy, root,
                                     Len(glast.hierarchy.parent))
        IN  /\ Len(Emitted) = Len(nodes)
            /\ \A i \in 1..Len(nodes) :
                   /\ Emitted[i].target = nodes[i]
                   /\ Emitted[i].propagation = "Down"
                   /\ Emitted[i].message =
                          [posx |-> "POSX_CHANGED" \in glast.data[nodes[i]],
                           posy |-> "POSY_CHANGED" \in glast.data[nodes[i]],
                           width |-> "WIDTH_CHANGED" \in glast.data[nodes[i]],
                           height |-> "HEIGHT_CHANGED" \in glast.data[nodes[i]]]

\* A pass over a tree of three entities, the width of one of them changed
C25_Witness ==
    /\ geo_passes > 0
    /\ Len(Emitted) = 3
    /\ \E i \in 1..Len(Emitted) :
           /\ Emitted[i].target # root
           /\ Emitted[i].message = [posx |-> FALSE, posy |-> FALSE,
                                    width |-> TRUE, height |-> FALSE]
    /\ \A e \in GeoEntities : data[e] = {}

\* C26: every event of a geometry_changed pass reports at least one changed
\* axis: an entity whose box is unchanged gets no event.
C26_EventsOnlyForChangedBoxes ==
    \A i \in 1..Len(Emitted) :
        \/ Emitted[i].message.posx
        \/ Emitted[i].message.posy
        \/ Emitted[i].message.width
        \/ Emitted[i].message.height

----------------------------------------------------------------------------
(* Claims on is_alive, the root and the encoding of an Entity *)

\* C27: is_alive(e) returns, without panicking, true exactly when the
\* generation of e is the one stored for the index of e; for the null entity
\* and for an index the allocator never issued it returns false.
C27_IsAliveNeverAborts ==
    last.op = "is_alive" =>
        /\ ~panicked
        /\ LET e == unwrap(last.entity)
           IN  last.alive <=>
                   /\ e # null
                   /\ last.issued
                   /\ entity_manager.generation[index_unchecked(e) + 1] = e.hi

\* C28: the root is alive in every state of the allocator, and create never
\* returns it.
C28_RootReservedAndAlive ==
    ~panicked =>
        /\ is_alive(entity_manager, root) = [panic |-> FALSE, value |-> TRUE]
        /\ last.op = "create" => last.entity # Some(root)

\* C29: Entity::new(index, generation) gives back its index and its
\* generation, unless they are the all-ones pair; the null entity has neither
\* and is_null.
C29_EncodingRoundTrips ==
    /\ last.op = "Entity::new"
           /\ ~(last.index = ENTITY_INDEX_MASK
                   /\ last.generation = ENTITY_GENERATION_MASK) =>
           /\ index(unwrap(last.entity)) = Some(last.index)
           /\ generation(unwrap(last.entity)) = Some(last.generation)
           /\ ~is_null(unwrap(last.entity))
    /\ last.op = "Entity::null" =>
           /\ index(unwrap(last.entity)) = None
           /\ generation(unwrap(last.entity)) = None
           /\ is_null(unwrap(last.entity))

\* The highest index below the all-ones one, with the highest generation
C29_Witness ==
    /\ last.op = "Entity::new"
    /\ last.index = ENTITY_INDEX_MASK - 1
    /\ last.generation = ENTITY_GENERATION_MASK
    /\ unwrap(last.entity) # null
    /\ index(unwrap(last.entity)) = Some(ENTITY_INDEX_MASK - 1)

----------------------------------------------------------------------------
(* Claims on the Redraw signal and on the other window events *)

\* C31: a step that handles a Redraw signal runs the transform pass and no
\* other, sets needs_redraw and leaves needs_restyle, needs_relayout and the
\* hierarchy as they were; a step that handles an event other than Restyle,
\* Relayout and Redraw runs no pass and leaves the three flags as they were.
C31_RedrawRunsTransformOnly ==
    [][/\ wlast' # wlast /\ wlast'.event = "Redraw" =>
              /\ passes' = <<[pass |-> "apply_transform",
                              hierarchy |-> Some(hierarchy)]>>
              /\ needs_redraw'
              /\ needs_restyle' = needs_restyle
              /\ needs_relayout' = needs_relayout
              /\ hierarchy' = hierarchy
       /\ wlast' # wlast /\ wlast'.event \notin {"Restyle", "Relayout", "Redraw"} =>
              /\ passes' = <<>>
              /\ needs_redraw' = needs_redraw
              /\ needs_restyle' = needs_restyle
              /\ needs_relayout' = needs_relayout
              /\ hierarchy' = hierarchy]_vars

\* A Redraw handled with the layout pending and no draw pending, on a tree
\* with a child
C31_Witness ==
    /\ Handled("Redraw")
    /\ wlast.needs_relayout /\ ~wlast.needs_redraw /\ ~wlast.needs_restyle
    /\ needs_relayout /\ needs_redraw /\ ~needs_restyle
    /\ Len(passes) = 1
    /\ wlast.hierarchy = hierarchy
    /\ get_first_child(hierarchy, root) # None

----------------------------------------------------------------------------
(* Claims on the changed-bits after the pass *)

NoAxis == [posx |-> FALSE, posy |-> FALSE, width |-> FALSE, height |-> FALSE]

\* C32: when a geometry_changed pass has run and the layout has changed no
\* box since, no entity of the tree has a changed-bit; a pass run again with
\* no layout in between reports no changed axis for any entity.
C32_PassResetsTheChangedBits ==
    /\ geo_passes > 0 /\ glast.geo_changes = geo_changes =>
           \A e \in GeoEntities : InTree(hierarchy, e) => data[e] = {}
    /\ geo_passes > 0 /\ glast.again =>
           \A i \in 1..Len(Emitted) : Emitted[i].message = NoAxis

\* A second pass right after one that reported a changed width
C32_Witness ==
    /\ geo_passes = 2 /\ glast.again
    /\ Len(Emitted) >= 2
    /\ \E i \in 1..glast.queued : event_queue[i].message.width
    /\ \A e \in GeoEntities : data[e] = {}

----------------------------------------------------------------------------
(* Claims on the iterators of a subtree *)

\* The entities of the tree
TreeEntities == {e \in SlotEntities(hierarchy) : InTree(hierarchy, e)}

Subtree(e) == SubtreePreorder(hierarchy, e, Len(hierarchy.parent))

Branch(e) == Drain("branch", hierarchy, branch_iter(e), Len(hierarchy.parent))

\* C33: in a tree built by add, branch_iter from an entity e of the tree ends
\* and yields e, then the descendants of e in depth-first preorder, each
\* once, and nothing else.
C33_BranchIsTheSubtree ==
    \A e \in TreeEntities : Branch(e).done /\ Branch(e).out = Subtree(e)

\* An entity with a later sibling and two children, the first of them a leaf
\* from which a branch iteration yields nothing but itself
C33_Witness ==
    /\ Returned("add")
    /\ \E e \in TreeEntities \ {root} :
           /\ get_next_sibling(hierarchy, e) # None
           /\ Len(Subtree(e)) >= 3
           /\ Branch(e).out = Subtree(e)
           /\ \E c \in SeqSet(Subtree(e)) \ {e} :
                  /\ get_next_sibling(hierarchy, c) # None
                  /\ Branch(c).out = <<c>>

FromEntity(e) == Drain("hierarchy", hierarchy, into_iter(e), Len(hierarchy.parent))

\* C34: the depth-first iteration started at an entity e other than the root
\* yields only e and descendants of e.
C34_SubtreeFormStaysBelowStart ==
    \A e \in TreeEntities \ {root} :
        SeqSet(FromEntity(e).out) \subseteq SeqSet(Subtree(e))

\* What the depth-first iteration yields after next_branch was called with
\* the pending node n
AfterNextBranch(n) ==
    Drain("hierarchy", hierarchy,
          HierarchyIterator_next_branch(hierarchy, Some(n)).cur,
          Len(hierarchy.parent))

\* C35: after next_branch was called with the pending node n, the iteration
\* yields what the whole-tree iteration yields after the subtree of n: no
\* descendant of n, and nothing at all when no ancestor-or-self of n has a
\* next sibling.
C35_NextBranchAbandonsTheSubtree ==
    \A n \in TreeEntities :
        LET k == Pos(Preorder.out, n) + Len(Subtree(n))
        IN  AfterNextBranch(n).out = SubSeq(Preorder.out, k, Len(Preorder.out))

----------------------------------------------------------------------------
(* Claims on the generations and the free queue of the allocator *)

\* The stored generations other than that of index i are what they were
OtherGenerationsKept(i) ==
    /\ Len(entity_manager'.generation) = Len(entity_manager.generation)
    /\ \A j \in 0..(Len(entity_manager.generation) - 1) :
           j # i => entity_manager'.generation[j + 1]
                        = entity_manager.generation[j + 1]

\* C36: a create that appends returns the number of indices issued so far
\* with generation 0; a create that recycles returns the index with the
\* generation stored for it and changes no stored generation; a destroy of e
\* leaves the stored generation of e's index one more than the generation of
\* e (so the recycled index comes back with one more than the generation of
\* the entity last destroyed at it) and changes no other stored generation.
C36_GenerationTags ==
    [][/\ (last'.op = "create" /\ entity_manager' # entity_manager
               /\ is_some(last'.entity)) =>
              LET r == unwrap(last'.entity)
                  i == index_unchecked(r)
              IN  IF last'.pre_free <= MINIMUM_FREE_INDICES
                  THEN /\ i = Len(entity_manager.generation)
                       /\ generation(r) = Some(0)
                       /\ \A j \in 1..Len(entity_manager.generation) :
                              entity_manager'.generation[j]
                                  = entity_manager.generation[j]
                  ELSE /\ generation(r) = Some(entity_manager.generation[i + 1])
                       /\ entity_manager'.generation = entity_manager.generation
       /\ (last'.op = "destroy" /\ entity_manager' # entity_manager) =>
              LET e == unwrap(last'.entity)
                  i == index_unchecked(e)
              IN  /\ Some(entity_manager'.generation[i + 1])
                         = Some(unwrap(generation(e)) + 1)
                  /\ OtherGenerationsKept(i)]_vars

\* C39: a create that returns an index issued before returns the index at
\* the front of the free queue, the one queued longest since destroy queues at
\* the back, and takes it off the queue; after a create that found more than
\* MINIMUM_FREE_INDICES entries queued at least MINIMUM_FREE_INDICES are
\* left, and a create that found fewer leaves the queue as it was.
C39_FifoAboveTheMark ==
    [][/\ (last'.op = "create" /\ entity_manager' # entity_manager
               /\ is_some(last'.entity)) =>
              LET q == entity_manager.free_list
                  i == index_unchecked(unwrap(last'.entity))
              IN  /\ i < Len(entity_manager.generation) =>
                         /\ q # <<>> /\ i = Head(q)
                         /\ entity_manager'.free_list = Tail(q)
                  /\ Len(q) > MINIMUM_FREE_INDICES =>
                         Len(entity_manager'.free_list) >= MINIMUM_FREE_INDICES
                  /\ Len(q) <= MINIMUM_FREE_INDICES =>
                         entity_manager'.free_list = q
       /\ (last'.op = "destroy" /\ entity_manager' # entity_manager) =>
              entity_manager'.free_list =
                  Append(entity_manager.free_list,
                         index_unchecked(unwrap(last'.entity)))]_vars

\* create has recycled the front of a queue of more than two indices, the
\* indices queued after it being left in their order
C39_Witness ==
    /\ last.op = "create" /\ last.freed
    /\ last.pre_free > MINIMUM_FREE_INDICES + 1
    /\ Len(entity_manager.free_list) = last.pre_free - 1
    /\ \A k \in 1..Len(entity_manager.free_list) :
           entity_manager.free_list[k] # index_unchecked(unwrap(last.entity))

----------------------------------------------------------------------------
(* Claims on the changed flag and on the reach of remove *)

Mutators ==
    {"add", "remove", "set_parent", "set_first_child", "set_next_sibling",
     "set_prev_sibling"}

\* C37: the changed flag is false in a new hierarchy, true after every call
\* of add, remove, set_parent, set_first_child, set_next_sibling or
\* set_prev_sibling that succeeded, and no call sets it back to false.
C37_ChangedIsSetAndKept ==
    /\ hlast.op = "new" => ~hierarchy.changed
    /\ hlast.op \in Mutators /\ hlast.res = "Ok" => hierarchy.changed
    /\ hpre.changed => hierarchy.changed

\* set_first_child has succeeded on a hierarchy whose flag was set before
C37_Witness ==
    /\ Returned("set_first_child")
    /\ hpre.changed /\ hierarchy.changed
    /\ hierarchy.first_child # hpre.first_child

\* The four link slots of x
Links(h, x) ==
    <<Slot(h.parent, x), Slot(h.first_child, x), Slot(h.next_sibling, x),
      Slot(h.prev_sibling, x)>>

\* C38: after remove(e) returned Ok, the only slots that differ from before
\* the call are slots of e, first_child of the parent e had, next_sibling of
\* the previous sibling e had and prev_sibling of the next sibling e had; a
\* descendant of e has the parent, first_child, next_sibling and prev_sibling
\* it had, and so has every other entity.
C38_RemoveTouchesTheNeighbourhoodOnly ==
    Returned("remove") =>
        LET e == unwrap(hlast.entity)
        IN  /\ Len(hierarchy.parent) = Len(hpre.parent)
            /\ \A x \in SlotEntities(hpre) \ {e} :
                   /\ Slot(hierarchy.parent, x) = Slot(hpre.parent, x)
                   /\ Some(x) # get_parent(hpre, e) =>
                          Slot(hierarchy.first_child, x) = Slot(hpre.first_child, x)
                   /\ Some(x) # get_prev_sibling(hpre, e) =>
                          Slot(hierarchy.next_sibling, x) = Slot(hpre.next_sibling, x)
                   /\ Some(x) # get_next_sibling(hpre, e) =>
                          Slot(hierarchy.prev_sibling, x) = Slot(hpre.prev_sibling, x)
                   /\ is_descendant_of(hpre, x, e) =>
                          Links(hierarchy, x) = Links(hpre, x)

\* remove has taken out a middle child that has a child of its own: the
\* parent, the child and both siblings are in the hierarchy
C38_Witness ==
    /\ Returned("remove")
    /\ LET e == unwrap(hlast.entity)
       IN  /\ get_parent(hpre, e) # None
           /\ get_prev_sibling(hpre, e) # None
           /\ get_next_sibling(hpre, e) # None
           /\ get_first_child(hpre, e) # None
           /\ get_first_child(hierarchy, e) = get_first_child(hpre, e)
           /\ Links(hierarchy, unwrap(get_first_child(hpre, e)))
                  = Links(hpre, unwrap(get_first_child(hpre, e)))

----------------------------------------------------------------------------
(* Claims on a ChildIterator consumed from both ends *)

\* The sequences of calls made on one ChildIterator
Interleavings ==
    UNION {[1..n -> {"next", "next_back"}] : n \in 0..MaxIteratorCalls}

RECURSIVE Consume(_, _, _)
\* The entities one ChildIterator yields to the calls, in the order of the
\* calls
Consume(h, it, calls) ==
    IF calls = <<>> THEN <<>>
    ELSE LET n == IF Head(calls) = "next" THEN ChildIterator_next(h, it)
                  ELSE ChildIterator_next_back(h, it)
         IN  (IF n.r = None THEN <<>> ELSE <<unwrap(n.r)>>)
                 \o Consume(h, n.cur, Tail(calls))

\* C40: whatever the order of the next and next_back calls made on one
\* ChildIterator of an entity of the tree, no child is yielded twice.
C40_EachChildAtMostOnce ==
    \A p \in TreeEntities : \A calls \in Interleavings :
        LET out == Consume(hierarchy, child_iter(hierarchy, p), calls)
        IN  \A i, j \in 1..Len(out) : i # j => out[i] # out[j]

============================================================================
